---- MODULE Spec2Model ----
(***************************************************************************)
(* A model of podpac's coordinate subsystem.                               *)
(*                                                                         *)
(*  - UniformGridCoord / Coord   (src/podpac/core/coordinate.py): the 1-D  *)
(*    uniform coordinate with its bounds, delta, size, coordinates,        *)
(*    intersect_check, intersect and intersect_bounds.                     *)
(*  - Coordinate   (src/podpac/core/coordinate/coordinate.py): the         *)
(*    multi-dimensional mapping with dims_map and _coords and its          *)
(*    stack / unstack / replace_coords / drop_dims / transpose /           *)
(*    intersect operations.                                                *)
(*  - UniformCoordinates1d.select: the module that defines it is not part  *)
(*    of the source tree (only its tests are); it is modelled from the     *)
(*    specification and the tests.                                         *)
(*                                                                         *)
(* Coordinate values are exact rationals <<n, d>> (d > 0, lowest terms):   *)
(* floating-point rounding is not modelled.                                *)
(***************************************************************************)
EXTENDS Integers, Sequences, FiniteSets, TLC

(***************************************************************************)
(* Bounds of the model.                                                    *)
(***************************************************************************)
MaxCoord == 4          \* start / stop values are drawn from 0 .. MaxCoord
MaxStep == 2           \* |step| is drawn from 1 .. MaxStep
MaxNum == 3            \* num is drawn from 1 .. MaxNum
MaxPad == 1            \* pad is drawn from 0 .. MaxPad

(***************************************************************************)
(* Exact rational arithmetic (numpy float64 without rounding).             *)
(***************************************************************************)
Abs(x) == IF x < 0 THEN -x ELSE x

RECURSIVE Gcd(_, _)
Gcd(a, b) == IF b = 0 THEN a ELSE Gcd(b, a % b)

\* the rational n/d in lowest terms with a positive denominator (d # 0)
Q(n, d) ==
    LET s == IF d < 0 THEN -1 ELSE 1
        g == Gcd(Abs(n), Abs(d))
    IN  <<(s * n) \div g, (s * d) \div g>>

QInt(n) == <<n, 1>>
QAdd(a, b) == Q(a[1] * b[2] + b[1] * a[2], a[2] * b[2])
QSub(a, b) == Q(a[1] * b[2] - b[1] * a[2], a[2] * b[2])
QMul(a, b) == Q(a[1] * b[1], a[2] * b[2])
QDiv(a, b) == Q(a[1] * b[2], a[2] * b[1])
QNeg(a) == <<-a[1], a[2]>>
QLt(a, b) == a[1] * b[2] < b[1] * a[2]
QLe(a, b) == a[1] * b[2] <= b[1] * a[2]
QMax(a, b) == IF QLt(a, b) THEN b ELSE a
QMin(a, b) == IF QLt(b, a) THEN b ELSE a
QAbs(a) == <<Abs(a[1]), a[2]>>
\* np.floor / np.ceil, as integers
QFloor(a) == a[1] \div a[2]
QCeil(a) == -((-a[1]) \div a[2])

IMax(a, b) == IF a < b THEN b ELSE a
IMin(a, b) == IF b < a THEN b ELSE a

\* Python's optional values: None is <<>>, a value x is <<x>>
None == <<>>
Some(x) == <<x>>

\* a[i:j] for 0 <= i, 0 <= j (Python slice, 0-based, half-open)
Slice(a, i, j) ==
    LET lo == IMin(i, Len(a))
        hi == IMin(j, Len(a))
    IN  IF hi <= lo THEN <<>> ELSE [k \in 1..(hi - lo) |-> a[lo + k]]

\* np.arange(a, b, s) for s # 0
arange(a, b, s) ==
    LET n == IMax(0, QCeil(QDiv(QSub(b, a), s)))
    IN  [k \in 1..n |-> QAdd(a, QMul(QInt(k - 1), s))]

\* np.linspace(a, b, n)
linspace(a, b, n) ==
    IF n = 1 THEN <<a>>
    ELSE [k \in 1..n |-> QAdd(a, QMul(QInt(k - 1), QDiv(QSub(b, a), QInt(n - 1))))]

(***************************************************************************)
(* UniformGridCoord (src/podpac/core/coordinate.py).  An object is the     *)
(* record of its traits [start, stop, num, step].                          *)
(***************************************************************************)
UniformGridCoord(start, stop, num, step) ==
    [start |-> start, stop |-> stop, num |-> num, step |-> step]

is_max_to_min(c) == QLt(c.stop, c.start)

bounds(c) == IF is_max_to_min(c) THEN <<c.stop, c.start>> ELSE <<c.start, c.stop>>

delta(c) ==
    IF c.step # None THEN c.step[1]
    ELSE LET d == QDiv(QAdd(QSub(c.stop, c.start), QInt(1)), QInt(c.num[1]))
         IN  IF is_max_to_min(c) THEN QNeg(d) ELSE d

size(c) ==
    IF c.num # None THEN c.num[1]
    ELSE IMax(0, QCeil(QDiv(QSub(c.start, c.stop), c.step[1])))

coordinates(c) ==
    IF c.step # None THEN arange(c.start, QAdd(c.stop, delta(c)), c.step[1])
    ELSE linspace(c.start, c.stop, size(c))

\* Results of a call: a coordinate object, an index pair [imin, imax], or an
\* exception.
RetCrd(c) == [kind |-> "crd", crd |-> c, ind |-> <<>>]
RetInd(i, j) == [kind |-> "ind", crd |-> <<>>, ind |-> <<i, j>>]
RetRaise == [kind |-> "raise", crd |-> <<>>, ind |-> <<>>]
RetNone == [kind |-> "none", crd |-> <<>>, ind |-> <<>>]

\* the record of the call in progress, when there is none
NoCall == [op |-> "none", b |-> <<>>, pad |-> 0, ind |-> FALSE, other |-> <<>>]

\* bounds[0] = max(self.bounds[0], bounds[0]); bounds[1] = min(...): the
\* caller's list after the two assignments
clipped_bounds(c, b) == <<QMax(bounds(c)[1], b[1]), QMin(bounds(c)[2], b[2])>>

intersect_bounds(c, b, pad, ind) ==
    LET cb   == clipped_bounds(c, b)
        lo   == bounds(c)[1]
        hi   == bounds(c)[2]
        imin == QFloor(QDiv(QSub(cb[1], lo), delta(c)))
        imax == QCeil(QDiv(QSub(hi, cb[2]), delta(c)))
        smin == IF is_max_to_min(c) THEN imax ELSE imin
        smax == IF is_max_to_min(c) THEN imin ELSE imax
        cmin == QMax(lo, QAdd(lo, QMul(QInt(IMax(0, imin - pad)), delta(c))))
        cmax == QMin(hi, QSub(hi, QMul(QInt(IMax(0, imax - pad)), delta(c))))
    IN  IF ind
        THEN RetInd(IMin(size(c), IMax(0, smin - pad)),
                    IMin(size(c), IMax(0, size(c) - smax + pad)))
        ELSE IF is_max_to_min(c)
             THEN RetCrd(UniformGridCoord(cmax, cmin, None, Some(delta(c))))
             ELSE RetCrd(UniformGridCoord(cmin, cmax, None, Some(delta(c))))

\* Coord.intersect_check: a result, or RetNone when the method falls off its
\* end (returns None).  self.__class__(coords=(lo, hi, 0)) reaches
\* UniformGridCoord.__init__ with num and step both None, which raises.
intersect_check(c, other, ind) ==
    IF bounds(c) = bounds(other)
    THEN IF ind THEN RetInd(0, size(c)) ELSE RetCrd(c)
    ELSE LET ib0 == QMax(bounds(c)[1], bounds(other)[1])
             ib1 == QMin(bounds(c)[2], bounds(other)[2])
         IN  IF QLt(ib1, ib0)
             THEN IF ind THEN RetInd(0, 0) ELSE RetRaise
             ELSE RetNone

intersect(c, other, pad, ind) ==
    LET check == intersect_check(c, other, ind)
    IN  IF check.kind # "none" THEN check
        ELSE intersect_bounds(c, bounds(other), pad, ind)

\* UniformGridCoord.area_bounds.  ctype and segment_position are traits of
\* Coord that no other method of the model reads, so they are arguments
\* here; the extents trait is not read by area_bounds.
area_bounds(c, ctype, segment_position) ==
    IF ctype \in {"fence", "segment"}
    THEN <<QAdd(bounds(c)[1], QMul(QNeg(segment_position), delta(c))),
           QAdd(bounds(c)[2], QMul(QSub(QInt(1), segment_position), delta(c)))>>
    ELSE bounds(c)

\* UniformGridCoord.__init__ with the traitlets cross-validators
\* _validate_num and _validate_step: it raises CoordinateException when num
\* and step are both None or both given, and otherwise returns the object;
\* it looks at neither the value of step nor its sign.
UniformGridCoord__init__(start, stop, num, step) ==
    IF num = None /\ step = None THEN RetRaise
    ELSE IF num # None /\ step # None THEN RetRaise
    ELSE RetCrd(UniformGridCoord(start, stop, num, step))

(***************************************************************************)
(* The cached properties of UniformGridCoord.  bounds, delta and           *)
(* coordinates are declared with @cached_property, and the observers       *)
(* _clear_cache and _clear_bounds_cache call clear_cache; both helpers     *)
(* come from podpac/core/utils.py, which is not in the source tree, and    *)
(* are modelled from the specification: a cached property is computed on   *)
(* first access and kept, and clear_cache empties the named caches.  The   *)
(* cache of an object is [bounds, delta, coords], each None or a value.    *)
(***************************************************************************)
NoCache == [bounds |-> None, delta |-> None, coords |-> None]

\* a read of a cached property: the value returned and the cache after it
cached_property(cache, name, value) ==
    IF cache[name] # None THEN [val |-> cache[name][1], cache |-> cache]
    ELSE [val |-> value, cache |-> [cache EXCEPT ![name] = Some(value)]]

clear_cache(cache, attrs) == [a \in DOMAIN cache |-> IF a \in attrs THEN None ELSE cache[a]]

\* an observer of start, stop, num and step that empties the cache of
\* bounds only
_clear_cache_bounds(cache) == clear_cache(cache, {"bounds"})

\* UniformGridCoord._clear_cache, the observer of start, stop, num and step
_clear_cache(cache) == clear_cache(cache, {"coords", "bounds", "delta"})

\* Coord._clear_bounds_cache, the observer of extents, ctype and
\* segment_position
_clear_bounds_cache(cache) == clear_cache(cache, {"bounds"})

\* c.bounds, c.delta and c.coordinates read through the cache; coordinates
\* of an object with a step reads self.delta
read_bounds(c, cache) == cached_property(cache, "bounds", bounds(c))
read_delta(c, cache) == cached_property(cache, "delta", delta(c))
read_coordinates(c, cache) ==
    IF cache.coords # None THEN [val |-> cache.coords[1], cache |-> cache]
    ELSE IF c.step # None
    THEN LET d == read_delta(c, cache)
         IN  cached_property(d.cache, "coords",
                             arange(c.start, QAdd(c.stop, d.val), c.step[1]))
    ELSE cached_property(cache, "coords", linspace(c.start, c.stop, size(c)))

\* c.<field> = value for a trait of UniformGridCoord: the object and its
\* cache after the assignment, and whether it raised.  _validate_num and
\* _validate_step raise when the other of num and step is set, and
\* Coord._coords_validate, which UniformGridCoord does not override, raises
\* NotImplementedError; an observer runs only when the value has changed.
setattr(c, cache, field, value) ==
    IF \/ field = "num" /\ c.step # None
       \/ field = "step" /\ c.num # None
       \/ field = "coords"
    THEN [crd |-> c, cache |-> cache, kind |-> "raise"]
    ELSE IF c[field] = value THEN [crd |-> c, cache |-> cache, kind |-> "ok"]
    ELSE [crd |-> [c EXCEPT ![field] = value], cache |-> _clear_cache(cache), kind |-> "ok"]

(***************************************************************************)
(* UniformCoordinates1d (podpac/core/coordinates/uniform_coordinates1d.py  *)
(* is not in the source tree; modelled from the specification and from     *)
(* test_uniform_coordinates1d.py).  An object is [start, stop, step] with  *)
(* integer fields, step # 0 and the sign of step agreeing with stop-start. *)
(***************************************************************************)
SelMaxCoord == 6       \* start / stop values are drawn from 0 .. SelMaxCoord
SelMaxStep == 3        \* |step| is drawn from 1 .. SelMaxStep

UniformCoordinates1d(start, stop, step) == [start |-> start, stop |-> stop, step |-> step]

\* floor(a / b) and ceil(a / b) for b > 0
FloorDiv(a, b) == a \div b
CeilDiv(a, b) == -((-a) \div b)

U1dSize(c) ==
    IF c.step > 0 THEN FloorDiv(c.stop - c.start, c.step) + 1
    ELSE FloorDiv(c.start - c.stop, -c.step) + 1

U1dCoordinates(c) == [k \in 1..U1dSize(c) |-> c.start + (k - 1) * c.step]

U1dBounds(c) ==
    LET last == c.start + (U1dSize(c) - 1) * c.step
    IN  <<IMin(c.start, last), IMax(c.start, last)>>

U1dIsDescending(c) == c.step < 0

\* what select returns: the selected coordinate (uniform is None for the empty
\* ArrayCoordinates1d) and the index slice [imin, imax)
SelEmpty == [uniform |-> None, I |-> <<0, 0>>]
SelUniform(c, imin, imax) ==
    [uniform |-> Some(UniformCoordinates1d(c.start + imin * c.step,
                                           c.start + (imax - 1) * c.step, c.step)),
     I |-> <<imin, imax>>]

\* SelLow rounding down instead of up
SelLow_floor(c, lo) == FloorDiv(lo - U1dBounds(c)[1], Abs(c.step))
\* index of the first selected point, counted from the smallest coordinate
SelLow(c, lo) == CeilDiv(lo - U1dBounds(c)[1], Abs(c.step))
\* SelHigh rounding up instead of down
SelHigh_ceil(c, hi) == CeilDiv(hi - U1dBounds(c)[1], Abs(c.step))
\* index of the last selected point, counted from the smallest coordinate
SelHigh(c, hi) == FloorDiv(hi - U1dBounds(c)[1], Abs(c.step))

select(c, b, outer) ==
    LET cb   == U1dBounds(c)
        n    == U1dSize(c)
        lo   == IMax(b[1], cb[1])
        hi   == IMin(b[2], cb[2])
        amin == SelLow(c, lo) - (IF outer THEN 1 ELSE 0)
        amax == SelHigh(c, hi) + (IF outer THEN 1 ELSE 0)
        \* positions in c's own order
        dmin == IF U1dIsDescending(c) THEN n - amax - 1 ELSE amin
        dmax == IF U1dIsDescending(c) THEN n - amin - 1 ELSE amax
        imin == IMin(n, IMax(0, dmin))
        imax == IMin(n, IMax(0, dmax + 1))
    IN  IF cb[1] >= b[1] /\ cb[2] <= b[2] THEN SelUniform(c, 0, n)
        ELSE IF cb[1] > b[2] \/ cb[2] < b[1] THEN SelEmpty
        ELSE IF imin >= imax THEN SelEmpty
        ELSE SelUniform(c, imin, imax)

\* the coordinates of a selection
SelCoordinates(r) == IF r.uniform = None THEN <<>> ELSE U1dCoordinates(r.uniform[1])

(***************************************************************************)
(* UniformCoordinates1d.__getitem__ (modelled from the specification and   *)
(* from test_uniform_coordinates1d.py, test_index and                      *)
(* test_index_descending).  An index is [t, v]: an integer, a slice        *)
(* [start, stop, step] with None or Some(i) fields, a list of integers or  *)
(* a list of booleans.  props is [name, ctype], the properties of c.       *)
(***************************************************************************)
\* slice.indices(n) of Python: <<first position, bound, stride>>, 0-based
slice_indices(sl, n) ==
    LET k == IF sl.step = None THEN 1 ELSE sl.step[1]
        lower == IF k > 0 THEN 0 ELSE 0 - 1
        upper == IF k > 0 THEN n ELSE n - 1
        Clamp(x) == IMax(lower, IMin(upper, IF x < 0 THEN x + n ELSE x))
    IN  <<IF sl.start = None THEN (IF k > 0 THEN 0 ELSE n - 1) ELSE Clamp(sl.start[1]),
          IF sl.stop = None THEN (IF k > 0 THEN n ELSE 0 - 1) ELSE Clamp(sl.stop[1]),
          k>>

\* the number of positions lo, lo + k, ... before the bound hi
slice_len(r) ==
    IF r[3] > 0 THEN (IF r[2] > r[1] THEN CeilDiv(r[2] - r[1], r[3]) ELSE 0)
    ELSE (IF r[1] > r[2] THEN CeilDiv(r[1] - r[2], 0 - r[3]) ELSE 0)

\* the stop of c[lo:hi:k] is the coordinate next to the bound, one position
\* too far
U1dSliced_bound(c, lo, hi, k) ==
    UniformCoordinates1d(c.start + lo * c.step, c.start + hi * c.step, k * c.step)

\* c[lo:hi:k] for a non-empty slice: start is the coordinate at position lo,
\* stop the coordinate at the last position before the bound (c[::2] of
\* (0, 50, 10) has stop 50), step the stride times c.step
U1dSliced(c, lo, hi, k) ==
    UniformCoordinates1d(c.start + lo * c.step,
                         c.start + (IF k > 0 THEN hi - 1 ELSE hi + 1) * c.step,
                         k * c.step)

getitem(c, props, index) ==
    LET n == U1dSize(c)
        At(i) == U1dCoordinates(c)[(IF i < 0 THEN i + n ELSE i) + 1]
        Got(cls, val) == [cls |-> cls, val |-> val, name |-> props.name, ctype |-> props.ctype]
    IN  CASE index.t = "int" ->
               IF index.v >= n \/ index.v < 0 - n
               THEN [cls |-> "IndexError", val |-> <<>>, name |-> "", ctype |-> ""]
               ELSE Got("UniformCoordinates1d",
                        UniformCoordinates1d(At(index.v), At(index.v), c.step))
          [] index.t = "slice" ->
               LET r == slice_indices(index.v, n)
               IN  Got("UniformCoordinates1d", U1dSliced(c, r[1], r[2], r[3]))
          [] index.t = "array" ->
               Got("ArrayCoordinates1d", [j \in 1..Len(index.v) |-> At(index.v[j])])
          [] index.t = "bool" ->
               LET On(j) == index.v[j]
                   pos == SelectSeq([j \in 1..n |-> j], On)
               IN  Got("ArrayCoordinates1d", [j \in 1..Len(pos) |-> At(pos[j] - 1)])

(***************************************************************************)
(* Coordinate (src/podpac/core/coordinate/coordinate.py).                  *)
(*                                                                         *)
(* An OrderedDict (and a dict, which keeps insertion order as well) is a   *)
(* sequence of entries [k, v] with distinct keys.  A dimension name is a   *)
(* string; a key such as 'lat_lon' is the tuple of its parts               *)
(* <<"lat", "lon">>, so '_'.join and split('_') are the identity on        *)
(* tuples and an unstacked key 'lat' is <<"lat">>.  _coords maps a name to *)
(* a 1-D coordinate, which is the sequence of its values; dims_map maps a  *)
(* name to the key it is stored under.  The 1-D coordinate classes come    *)
(* from podpac/core/coordinate/coord.py, which is not in the source tree.  *)
(***************************************************************************)
CMaxSize == 2          \* a 1-D coordinate given to a constructor has 1 .. CMaxSize points

OKeys(d) == [i \in 1..Len(d) |-> d[i].k]
OValues(d) == [i \in 1..Len(d) |-> d[i].v]
OHas(d, k) == \E i \in 1..Len(d) : d[i].k = k
OIndex(d, k) == CHOOSE i \in 1..Len(d) : d[i].k = k
OGet(d, k) == d[OIndex(d, k)].v
\* d[k] = v: a key already present keeps its place
OPut(d, k, v) ==
    IF OHas(d, k)
    THEN [i \in 1..Len(d) |-> IF d[i].k = k THEN [k |-> k, v |-> v] ELSE d[i]]
    ELSE Append(d, [k |-> k, v |-> v])
\* del d[k]
ODel(d, k) == LET Keep(e) == e.k # k IN SelectSeq(d, Keep)

SeqSet(s) == {s[i] : i \in 1..Len(s)}
\* s[::-1]
Reverse(s) == [i \in 1..Len(s) |-> s[Len(s) + 1 - i]]

\* a value handed to the constructor under a key: one array of values, or a
\* list of arrays (one per part of a stacked key)
ArrayVal(a) == [list |-> FALSE, a |-> a]
ListVal(as) == [list |-> TRUE, a |-> as]

\* what a call produces: kind is "ok" or the exception raised; a call that
\* raised leaves d empty
Ok(d) == [kind |-> "ok", d |-> d]
Raise(e) == [kind |-> e, d |-> <<>>]

\* val[i] for i counted from 1: an array of a list, or one value of an array
\* (which MonotonicCoord / Coord then wrap as a coordinate of one point)
ValIndex(val, i) ==
    IF i > Len(val.a) THEN Raise("IndexError")
    ELSE IF val.list THEN Ok(val.a[i]) ELSE Ok(<<val.a[i]>>)

_valid_dims == {"time", "lat", "lon", "alt"}

RECURSIVE PutParts(_, _, _)
\* for cc in c.split('_'): stacked_coords[cc] = c
PutParts(m, parts, key) ==
    IF parts = <<>> THEN m
    ELSE PutParts(OPut(m, Head(parts), key), Tail(parts), key)

RECURSIVE dims_map_of(_, _)
dims_map_of(m, keys) ==
    IF keys = <<>> THEN m
    ELSE dims_map_of(PutParts(m, Head(keys), Head(keys)), Tail(keys))

get_dims_map(coords) == dims_map_of(<<>>, OKeys(coords))

RECURSIVE unstack_parts(_, _, _, _)
\* for i, k in enumerate(keys): new_crds[k] = val[i]
unstack_parts(new, keys, val, i) ==
    IF i > Len(keys) THEN Ok(new)
    ELSE LET x == ValIndex(val, i)
         IN  IF x.kind # "ok" THEN Raise(x.kind)
             ELSE unstack_parts(OPut(new, keys[i], x.d), keys, val, i + 1)

RECURSIVE unstack_from(_, _, _, _)
unstack_from(new, coords, dm, i) ==
    IF i > Len(coords) THEN Ok(new)
    ELSE LET key == coords[i].k
             val == coords[i].v
         IN  IF Len(key) = 1 /\ OHas(dm, key[1])
             THEN unstack_from(OPut(new, key[1], val.a), coords, dm, i + 1)
             ELSE LET r == unstack_parts(new, key, val, 1)
                  IN  IF r.kind # "ok" THEN r
                      ELSE unstack_from(r.d, coords, dm, i + 1)

\* unstack_dict(coords) with self.dims_map = dm; check_dim_repeat is False in
\* every call
unstack_dict(coords, dm) == unstack_from(<<>>, coords, dm, 1)

RECURSIVE stack_from(_, _, _, _)
stack_from(stacked, coords, dm, i) ==
    IF i > Len(dm) THEN Ok(stacked)
    ELSE LET key == dm[i].k
             val == dm[i].v
         IN  IF ~OHas(coords, key) THEN Raise("KeyError")
             ELSE IF OHas(stacked, val)
             THEN LET temp == OGet(stacked, val)
                      lst  == IF temp.list THEN temp.a ELSE <<temp.a>>
                  IN  stack_from(OPut(stacked, val, ListVal(Append(lst, OGet(coords, key)))),
                                 coords, dm, i + 1)
             ELSE stack_from(OPut(stacked, val, ArrayVal(OGet(coords, key))),
                             coords, dm, i + 1)

stack_dict(coords, dm) == stack_from(<<>>, coords, dm, 1)

\* key not in self.dims_map.values()
IsStackedDim(dm, key) == <<key>> \notin SeqSet(OValues(dm))

\* the outcome of _coords_validate at the i-th key, the keys before it having
\* passed: _validate_dim, then the size recorded for the stacked key by the
\* first of its dimensions
validate_at(value, dm, i) ==
    LET key == value[i].k
        first == {j \in 1..(i - 1) : /\ IsStackedDim(dm, value[j].k)
                                     /\ OGet(dm, value[j].k) = OGet(dm, key)}
    IN  IF key \notin _valid_dims THEN "ValueError"
        ELSE IF ~IsStackedDim(dm, key) THEN "ok"
        ELSE IF ~OHas(dm, key) THEN "KeyError"
        ELSE IF first = {} THEN "ok"
        ELSE IF Len(value[i].v) # Len(value[CHOOSE j \in first : \A h \in first : j <= h].v)
        THEN "ValueError"
        ELSE "ok"

RECURSIVE validate_from(_, _, _)
validate_from(value, dm, i) ==
    IF i > Len(value) THEN "ok"
    ELSE IF validate_at(value, dm, i) # "ok" THEN validate_at(value, dm, i)
    ELSE validate_from(value, dm, i + 1)

_coords_validate(value, dm) == validate_from(value, dm, 1)

\* a Coordinate object
Obj(coords, dm) == [coords |-> coords, dims_map |-> dm]
EmptyObj == Obj(<<>>, <<>>)

\* Coordinate(coords=coords) for an OrderedDict coords: the object, or the
\* exception __init__ raises
Coordinate(coords) ==
    LET dm == get_dims_map(coords)
        un == unstack_dict(coords, dm)
    IN  IF un.kind # "ok" THEN Raise(un.kind)
        ELSE IF _coords_validate(un.d, dm) # "ok" THEN Raise(_coords_validate(un.d, dm))
        ELSE Ok(Obj(un.d, dm))

is_stacked(o) == \E i \in 1..Len(o.dims_map) : <<o.dims_map[i].k>> # o.dims_map[i].v

RECURSIVE Unique(_)
\* the values of a sequence in order of first appearance
Unique(s) ==
    IF s = <<>> THEN <<>>
    ELSE LET u == Unique(SubSeq(s, 1, Len(s) - 1))
         IN  IF s[Len(s)] \in SeqSet(u) THEN u ELSE Append(u, s[Len(s)])

dims(o) == Unique(OValues(o.dims_map))

\* get_shape() with other_coords = self: the size of every dimension of _coords
\* whose stacked key was not seen before
get_shape(o) ==
    LET Counted(i) == \A j \in 1..(i - 1) :
                          OGet(o.dims_map, o.coords[j].k) # OGet(o.dims_map, o.coords[i].k)
        idx == SelectSeq([i \in 1..Len(o.coords) |-> i], Counted)
    IN  [n \in 1..Len(idx) |-> Len(o.coords[idx[n]].v)]

shape(o) == get_shape(o)

RECURSIVE stack_map(_, _, _)
\* for k in stack_dims: dims_map[k] = stack_dim
stack_map(dm, ks, stack_dim) ==
    IF ks = <<>> THEN dm
    ELSE stack_map(OPut(dm, Head(ks), stack_dim), Tail(ks), stack_dim)

\* an in-place stack that does not put the old dims_map back when the
\* validator raises
stack_keep(o, stack_dims) ==
    LET dm == stack_map(o.dims_map, stack_dims, stack_dims)
    IN  IF stack_dict(o.coords, dm).kind # "ok"
        THEN [obj |-> o, kind |-> stack_dict(o.coords, dm).kind]
        ELSE IF _coords_validate(o.coords, dm) # "ok"
        THEN [obj |-> Obj(o.coords, dm), kind |-> _coords_validate(o.coords, dm)]
        ELSE [obj |-> Obj(o.coords, dm), kind |-> "ok"]

\* stack(stack_dims, copy=False): the object after the call and the outcome
stack(o, stack_dims) ==
    LET dm == stack_map(o.dims_map, stack_dims, stack_dims)
    IN  IF stack_dict(o.coords, dm).kind # "ok"
        THEN [obj |-> o, kind |-> stack_dict(o.coords, dm).kind]
        ELSE IF _coords_validate(o.coords, dm) # "ok"
        THEN [obj |-> o, kind |-> _coords_validate(o.coords, dm)]
        ELSE [obj |-> Obj(o.coords, dm), kind |-> "ok"]

\* unstack(copy=False)
unstack(o) ==
    Obj(o.coords, [i \in 1..Len(o.dims_map) |->
                      [k |-> o.dims_map[i].k, v |-> <<o.dims_map[i].k>>]])

RECURSIVE replace_from(_, _, _)
replace_from(o, other, i) ==
    IF i > Len(o.coords) THEN o
    ELSE LET c == o.coords[i].k
         IN  IF OHas(other.coords, c)
             THEN replace_from(Obj(OPut(o.coords, c, OGet(other.coords, c)),
                                   OPut(o.dims_map, c, OGet(other.dims_map, c))),
                               other, i + 1)
             ELSE replace_from(o, other, i + 1)

\* replace_coords(other, copy=False)
replace_coords(o, other) == replace_from(o, other, 1)

RECURSIVE drop_args(_, _, _)
\* the loop of drop_dims over args: the object and split_dims after it
drop_args(o, args, split_dims) ==
    IF args = <<>> THEN [obj |-> o, split_dims |-> split_dims]
    ELSE LET arg == Head(args)
         IN  IF ~OHas(o.coords, arg) THEN drop_args(o, Tail(args), split_dims)
             ELSE IF OGet(o.dims_map, arg) = <<arg>>
             THEN drop_args(Obj(ODel(o.coords, arg), ODel(o.dims_map, arg)),
                            Tail(args), split_dims)
             ELSE drop_args(Obj(ODel(o.coords, arg), o.dims_map),
                            Tail(args), split_dims \o OGet(o.dims_map, arg))

RECURSIVE drop_dims(_, _)
drop_dims(o, args) ==
    LET r == drop_args(o, args, <<>>)
    IN  IF r.split_dims # <<>> THEN drop_dims(r.obj, r.split_dims) ELSE r.obj

\* OrderedDict((dim, self._coords[dim]) for dim in dims)
transposed(o, ds) == [i \in 1..Len(ds) |-> [k |-> ds[i], v |-> OGet(o.coords, ds[i])]]

\* transpose(*dims, in_place=True) for one or more dims: the object after the
\* call and the outcome.  The assignment to the trait _coords runs
\* _coords_validate and is not made when the validator raises.
transpose(o, ds) ==
    IF \E i \in 1..Len(ds) : ~OHas(o.coords, ds[i])
    THEN [obj |-> o, kind |-> "KeyError"]
    ELSE IF _coords_validate(transposed(o, ds), o.dims_map) # "ok"
    THEN [obj |-> o, kind |-> _coords_validate(transposed(o, ds), o.dims_map)]
    ELSE [obj |-> Obj(transposed(o, ds), o.dims_map), kind |-> "ok"]

(***************************************************************************)
(* The 1-D intersect that Coordinate.intersect calls.  coord.py is not in  *)
(* the source tree: a 1-D coordinate intersected with another keeps the    *)
(* points inside the other's bounds, widened by pad points on each side,   *)
(* and with ind=True returns them as a slice of its own points.            *)
(***************************************************************************)
SliceOf(a, b) == [all |-> FALSE, start |-> a, stop |-> b]
\* slice(None, None)
SliceNone == [all |-> TRUE, start |-> 0, stop |-> 0]

\* the positions (from 0) of an array of n points that a slice selects
SliceIndices(sl, n) ==
    IF sl.all THEN 0..(n - 1) ELSE {x \in 0..(n - 1) : sl.start <= x /\ x < sl.stop}

\* the values of a set of integers in increasing order
Sorted(S) == [i \in 1..Cardinality(S) |->
                 CHOOSE x \in S : Cardinality({y \in S : y < x}) = i - 1]

\* c.intersect(other, ind=True, pad=pad)
coord_intersect_ind(c, other, pad) ==
    LET inner == {x \in 0..(Len(c) - 1) :
                     /\ \E j \in 1..Len(other) : other[j] <= c[x + 1]
                     /\ \E j \in 1..Len(other) : c[x + 1] <= other[j]}
    IN  IF inner = {} THEN SliceOf(0, 0)
        ELSE SliceOf(IMax(0, Sorted(inner)[1] - pad),
                     IMin(Len(c), Sorted(inner)[Cardinality(inner)] + 1 + pad))

\* c.coordinates[I] for a set I of positions inside c
Take(c, I) == [i \in 1..Cardinality(I) |-> c[Sorted(I)[i] + 1]]

\* c.intersect(other, ind=False, pad=pad)
coord_intersect(c, other, pad) ==
    Take(c, SliceIndices(coord_intersect_ind(c, other, pad), Len(c)))

\* what Coordinate.intersect returns: a Coordinate ("crd"), the list I of
\* slices, the list I2 of index arrays, or the exception raised
Result(kind, val) == [kind |-> kind, val |-> val]

\* Coord.__add__ on the arrays of two coordinates: the second one reversed
\* when the two run in opposite directions, then the two concatenated, the
\* one that lies wholly before the other first
Coord_add(a, b) ==
    LET desc(x) == x[1] > x[Len(x)]
        min(x) == CHOOSE m \in SeqSet(x) : \A y \in SeqSet(x) : m <= y
        max(x) == CHOOSE m \in SeqSet(x) : \A y \in SeqSet(x) : m >= y
        c == IF desc(a) # desc(b) THEN Reverse(b) ELSE b
    IN  IF desc(a)
        THEN IF min(a) > max(c) THEN a \o c
             ELSE IF max(a) < min(c) THEN c \o a
             ELSE a \o c
        ELSE IF min(a) > max(c) THEN c \o a
             ELSE a \o c

\* np.all(np.array(a) != np.array(b)) for arrays of one size, or one of
\* them of one value
all_differ(a, b) ==
    \A i \in 1..Len(a), j \in 1..Len(b) :
        (i = j \/ Len(a) = 1 \/ Len(b) = 1) => a[i] # b[j]

RECURSIVE add_from(_, _, _, _, _, _)
\* the loop of _add from the i-th key of other on: new_coords and the
\* dims_map it has reached, which is self.dims_map itself
add_from(new_coords, dm, o, other, unique, i) ==
    IF i > Len(other.coords) THEN [kind |-> "ok", coords |-> new_coords, dims_map |-> dm]
    ELSE LET key == other.coords[i].k
         IN  IF OHas(o.coords, key)
             THEN IF ~OHas(dm, key) \/ ~OHas(other.dims_map, key)
                  THEN [kind |-> "KeyError", coords |-> new_coords, dims_map |-> dm]
                  ELSE IF OGet(dm, key) # OGet(other.dims_map, key)
                  THEN [kind |-> "ValueError", coords |-> new_coords, dims_map |-> dm]
                  ELSE IF all_differ(OGet(o.coords, key), other.coords[i].v) \/ ~unique
                  THEN add_from(OPut(new_coords, key,
                                     Coord_add(OGet(o.coords, key), other.coords[i].v)),
                                dm, o, other, unique, i + 1)
                  ELSE add_from(new_coords, dm, o, other, unique, i + 1)
             ELSE IF ~OHas(other.dims_map, key)
             THEN [kind |-> "KeyError", coords |-> new_coords, dims_map |-> dm]
             ELSE add_from(OPut(new_coords, key, other.coords[i].v),
                           OPut(dm, key, OGet(other.dims_map, key)),
                           o, other, unique, i + 1)

\* self._add(other, unique) for a Coordinate other: what it returns or
\* raises, and self.dims_map after the call
_add(o, other, unique) ==
    LET r == add_from(o.coords, o.dims_map, o, other, unique, 1)
        st == stack_dict(r.coords, r.dims_map)
    IN  IF r.kind # "ok" THEN [kind |-> r.kind, val |-> <<>>, dims_map |-> r.dims_map]
        ELSE IF st.kind # "ok" THEN [kind |-> st.kind, val |-> <<>>, dims_map |-> r.dims_map]
        ELSE [kind |-> Coordinate(st.d).kind, val |-> Coordinate(st.d).d,
              dims_map |-> r.dims_map]

\* Coordinate.intersect(other, pad=pad, ind=ind) for a number pad
Coordinate_intersect(o, other, pad, ind) ==
    LET n  == Len(o.coords)
        I  == [i \in 1..n |->
                 IF OHas(other.coords, o.coords[i].k)
                 THEN coord_intersect_ind(o.coords[i].v, OGet(other.coords, o.coords[i].k), pad)
                 ELSE SliceNone]
        d  == [i \in 1..n |->
                 [k |-> o.coords[i].k,
                  v |-> IF OHas(other.coords, o.coords[i].k)
                        THEN coord_intersect(o.coords[i].v,
                                             OGet(other.coords, o.coords[i].k), pad)
                        ELSE o.coords[i].v]]
        sh == shape(o)
        ds == dims(o)
        \* the stacking loop at the i-th entry of dims
        loop_at(i) ==
            IF i > Len(sh) THEN "IndexError"
            ELSE IF \E j \in 1..Len(ds[i]) : ~OHas(o.coords, ds[i][j]) THEN "ValueError"
            ELSE "ok"
        bad == {i \in 1..Len(ds) : loop_at(i) # "ok"}
        I2(i) == {x \in 0..(sh[i] - 1) :
                     \A j \in 1..Len(ds[i]) :
                         x \in SliceIndices(I[OIndex(o.coords, ds[i][j])], sh[i])}
        \* the position in dims of the key that dimension k is stored under
        at(k) == CHOOSE i \in 1..Len(ds) : ds[i] = OGet(o.dims_map, k)
        coords == [m \in 1..n |->
                     [k |-> o.coords[m].k, v |-> Take(o.coords[m].v, I2(at(o.coords[m].k)))]]
        built(c) == IF stack_dict(c, o.dims_map).kind # "ok"
                    THEN Result(stack_dict(c, o.dims_map).kind, <<>>)
                    ELSE LET new == Coordinate(stack_dict(c, o.dims_map).d)
                         IN  IF new.kind # "ok" THEN Result(new.kind, <<>>)
                             ELSE Result("crd", new.d)
    IN  IF ~(ind \/ is_stacked(o)) THEN built(d)
        ELSE IF ~is_stacked(o) THEN Result("I", I)
        ELSE IF bad # {} THEN Result(loop_at(Sorted(bad)[1]), <<>>)
        ELSE IF ind THEN Result("I2", [i \in 1..Len(ds) |-> Sorted(I2(i))])
        ELSE IF \E m \in 1..n : \E x \in I2(at(o.coords[m].k)) : x >= Len(o.coords[m].v)
        THEN Result("IndexError", <<>>)
        ELSE built(coords)

RECURSIVE product(_)
\* itertools.product(*seqs) as a list: the last sequence varies fastest
product(seqs) ==
    IF seqs = <<>> THEN << <<>> >>
    ELSE LET rest == product(Tail(seqs))
         IN  [p \in 1..(Len(Head(seqs)) * Len(rest)) |->
                 <<Head(seqs)[((p - 1) \div Len(rest)) + 1]>>
                     \o rest[((p - 1) % Len(rest)) + 1]]

\* list(c.iterchunks(shape, return_slice=True)) for an unstacked c: the
\* chunks in the order they are yielded, each the tuple l of slices and the
\* _coords of the Coordinate built from self.coords[k][slc], or the
\* exception raised.  The slices of dimension j start at range(0, m, n) for
\* the j-th pair (m, n) of zip(self.shape, shape); map() builds them in the
\* comprehension under Python 2 and lazily under Python 3, where the lambda
\* finds n bound to the last entry that zip paired.
iterchunks(o, shp, py3) ==
    LET sh == shape(o)
        ds == dims(o)
        nd == IMin(Len(sh), Len(shp))
        n(j) == IF py3 THEN shp[nd] ELSE shp[j]
        slices == [j \in 1..nd |->
                      [i \in 1..CeilDiv(sh[j], shp[j]) |->
                          SliceOf((i - 1) * shp[j], (i - 1) * shp[j] + n(j))]]
        nk == IMin(Len(ds), nd)
        chunk(l) ==
            [slices |-> l,
             coords |-> [j \in 1..nk |->
                            LET c == OGet(o.coords, ds[j][1])
                            IN  [k |-> ds[j][1], v |-> Take(c, SliceIndices(l[j], Len(c)))]]]
    IN  IF \E j \in 1..nk : ~OHas(o.coords, ds[j][1]) THEN Result("KeyError", <<>>)
        ELSE Result("chunks", [p \in 1..Len(product(slices)) |-> chunk(product(slices)[p])])

(***************************************************************************)
(* Coordinates and StackedCoordinates (podpac/core/coordinates/, of which  *)
(* only the tests are in the source tree; modelled from the specification  *)
(* and from test_coordinates.py and test_stacked_coordinates.py).          *)
(*                                                                         *)
(* A Coordinates1d is [name, ctype, uniform, v]: name "" is None; v is the *)
(* list of values of an ArrayCoordinates1d or <<start, stop, step>> of a   *)
(* UniformCoordinates1d.  A StackedCoordinates is the sequence of its two  *)
(* or more components.  A Coordinates is the sequence of its values, each  *)
(* a sequence of components (one for an unstacked dimension); the key of a *)
(* value is the tuple of its component names, 'lat_lon' being              *)
(* <<"lat", "lon">>.                                                       *)
(***************************************************************************)
GMaxSize == 2          \* a component has 1 .. GMaxSize points

Coordinates1d(name, ctype, uniform, v) ==
    [name |-> name, ctype |-> ctype, uniform |-> uniform, v |-> v]

C1dCoordinates(x) ==
    IF x.uniform THEN U1dCoordinates(UniformCoordinates1d(x.v[1], x.v[2], x.v[3]))
    ELSE x.v

\* the name of a value and the dims of a Coordinates
GName(val) == [i \in 1..Len(val) |-> val[i].name]
GDims(c) == [i \in 1..Len(c) |-> GName(c[i])]

\* the 0-based positions an index selects among n points
index_positions(index, n) ==
    LET r == slice_indices(index.v, n)
        On(j) == index.v[j]
        pos == SelectSeq([j \in 1..n |-> j], On)
    IN  CASE index.t = "int" -> <<IF index.v < 0 THEN index.v + n ELSE index.v>>
          [] index.t = "slice" -> [j \in 1..slice_len(r) |-> r[1] + (j - 1) * r[3]]
          [] index.t = "array" -> index.v
          [] index.t = "bool" -> [j \in 1..Len(pos) |-> pos[j] - 1]

\* the component indexed with the position of its first point only
C1dTake_first(x, pos) ==
    Coordinates1d(x.name, x.ctype, FALSE, [j \in 1..Len(pos) |-> C1dCoordinates(x)[1]])

\* the ArrayCoordinates1d of the values of x at the given positions
C1dTake(x, pos) ==
    Coordinates1d(x.name, x.ctype, FALSE,
                  [j \in 1..Len(pos) |-> C1dCoordinates(x)[pos[j] + 1]])

GResult(kind, val) == [kind |-> kind, val |-> val]

\* StackedCoordinates.__getitem__: a component name, or an index applied to
\* every component
StackedCoordinates_getitem(st, index) ==
    LET n == Len(C1dCoordinates(st[1]))
    IN  IF index.t = "name"
        THEN IF \E i \in 1..Len(st) : st[i].name = index.v
             THEN GResult("Coordinates1d", st[CHOOSE i \in 1..Len(st) : st[i].name = index.v])
             ELSE GResult("KeyError", <<>>)
        ELSE IF index.t = "int" /\ (index.v >= n \/ index.v < 0 - n)
        THEN GResult("IndexError", <<>>)
        ELSE GResult("StackedCoordinates",
                     [i \in 1..Len(st) |-> C1dTake(st[i], index_positions(index, n))])

\* Coordinates1d.definition: a dict with start, stop, step (uniform) or
\* values (array), and name and ctype; a dict is [t |-> "dict", v |-> record]
C1dDefinition(x) ==
    [t |-> "dict",
     v |-> IF x.uniform
           THEN [start |-> x.v[1], stop |-> x.v[2], step |-> x.v[3],
                 name |-> x.name, ctype |-> x.ctype]
           ELSE [values |-> x.v, name |-> x.name, ctype |-> x.ctype]]

\* from_definition that leaves ctype at its default
C1dFromDefinition_default(d) ==
    IF "start" \in DOMAIN d.v
    THEN Coordinates1d(d.v.name, "midpoint", TRUE, <<d.v.start, d.v.stop, d.v.step>>)
    ELSE Coordinates1d(d.v.name, "midpoint", FALSE, d.v.values)

\* UniformCoordinates1d.from_definition / ArrayCoordinates1d.from_definition
C1dFromDefinition(d) ==
    IF "start" \in DOMAIN d.v
    THEN Coordinates1d(d.v.name, d.v.ctype, TRUE, <<d.v.start, d.v.stop, d.v.step>>)
    ELSE Coordinates1d(d.v.name, d.v.ctype, FALSE, d.v.values)

\* Coordinates.definition: a list with a dict for an unstacked dimension and
\* a list of dicts (StackedCoordinates.definition) for a stacked one
definition(c) ==
    [i \in 1..Len(c) |->
        IF Len(c[i]) = 1 THEN C1dDefinition(c[i][1])
        ELSE [t |-> "list", v |-> [j \in 1..Len(c[i]) |-> C1dDefinition(c[i][j])]]]

from_definition(d) ==
    [i \in 1..Len(d) |->
        IF d[i].t = "dict" THEN <<C1dFromDefinition(d[i])>>
        ELSE [j \in 1..Len(d[i].v) |-> C1dFromDefinition(d[i].v[j])]]

\* json.dumps of a definition, as the sequence of the tokens of the text:
\* brackets, braces, keys, names and the decimal digits of the numbers
json_dumps(d) ==
    LET RECURSIVE Cat(_)
        Cat(ss) == IF ss = <<>> THEN <<>> ELSE Head(ss) \o Cat(Tail(ss))
        Nums(a) == [k \in 1..Len(a) |-> ToString(a[k])]
        Dict(x) ==
            <<"{">>
            \o (IF "start" \in DOMAIN x.v
                THEN <<"start", ToString(x.v.start), "stop", ToString(x.v.stop),
                       "step", ToString(x.v.step)>>
                ELSE <<"values", "[">> \o Nums(x.v.values) \o <<"]">>)
            \o <<"name", x.v.name, "ctype", x.v.ctype, "}">>
        Item(x) ==
            IF x.t = "dict" THEN Dict(x)
            ELSE <<"[">> \o Cat([j \in 1..Len(x.v) |-> Dict(x.v[j])]) \o <<"]">>
    IN  <<"[">> \o Cat([i \in 1..Len(d) |-> Item(d[i])]) \o <<"]">>

\* json.loads of one dict whose "{" is the token at p: the dict and the
\* position after its "}"
json_dict(toks, p) ==
    LET Num(tok) == CHOOSE n \in (0 - 9)..99 : ToString(n) = tok
        close == CHOOSE q \in (p + 3)..Len(toks) :
                     toks[q] = "]" /\ \A r \in (p + 3)..(q - 1) : toks[r] # "]"
    IN  IF toks[p + 1] = "start"
        THEN [v |-> [t |-> "dict",
                     v |-> [start |-> Num(toks[p + 2]), stop |-> Num(toks[p + 4]),
                            step |-> Num(toks[p + 6]), name |-> toks[p + 8],
                            ctype |-> toks[p + 10]]],
              next |-> p + 12]
        ELSE [v |-> [t |-> "dict",
                     v |-> [values |-> [k \in 1..(close - p - 3) |-> Num(toks[p + 2 + k])],
                            name |-> toks[close + 2], ctype |-> toks[close + 4]]],
              next |-> close + 6]

\* json.loads of the items of a list from the token at p up to its "]": the
\* items and the position after the "]"
RECURSIVE json_items(_, _)
json_items(toks, p) ==
    IF toks[p] = "]" THEN [v |-> <<>>, next |-> p + 1]
    ELSE LET item == IF toks[p] = "{" THEN json_dict(toks, p)
                     ELSE LET l == json_items(toks, p + 1)
                          IN  [v |-> [t |-> "list", v |-> l.v], next |-> l.next]
             rest == json_items(toks, item.next)
         IN  [v |-> <<item.v>> \o rest.v, next |-> rest.next]

\* Coordinates.json and Coordinates.from_json
json(c) == json_dumps(definition(c))
from_json(s) == from_definition(json_items(s, 2).v)

\* an equality that does not look at ctype
Coordinates_eq_values(a, b) ==
    /\ GDims(a) = GDims(b)
    /\ \A i \in 1..Len(a) : \A j \in 1..Len(a[i]) :
           C1dCoordinates(a[i][j]) = C1dCoordinates(b[i][j])

\* Coordinates.__eq__: the same dims, and under every key components with
\* the same ctype and the same coordinates
Coordinates_eq(a, b) ==
    /\ GDims(a) = GDims(b)
    /\ \A i \in 1..Len(a) : \A j \in 1..Len(a[i]) :
           /\ a[i][j].ctype = b[i][j].ctype
           /\ C1dCoordinates(a[i][j]) = C1dCoordinates(b[i][j])

\* Coordinates.hash: the hash of the JSON text of what __eq__ compares, the
\* names, ctypes and coordinates of the components.  The hash function is
\* taken to be free of collisions, so the hash is the hashed text.
Coordinates_hash(c) ==
    json([i \in 1..Len(c) |->
            [j \in 1..Len(c[i]) |->
                Coordinates1d(c[i][j].name, c[i][j].ctype, FALSE, C1dCoordinates(c[i][j]))]])

\* the values of other appended to those of c, none replaced
merge_append(c, other) == c \o other

\* dict.update on the values: a value of other replaces the value of c with
\* the same key, in its place, and is appended otherwise
merge(c, other) ==
    LET In(x, key) == \E i \in 1..Len(x) : GName(x[i]) = key
        IsNew(v) == ~In(c, GName(v))
    IN  [i \in 1..Len(c) |->
            IF In(other, GName(c[i]))
            THEN other[CHOOSE j \in 1..Len(other) : GName(other[j]) = GName(c[i])]
            ELSE c[i]]
        \o SelectSeq(other, IsNew)

\* Coordinates.update(other), other being [cls, v]: the exception raised
\* or "None", and the value of coords after the call
update(c, other) ==
    IF other.cls # "Coordinates" THEN GResult("TypeError", c)
    ELSE LET d == merge(c, other.v)
             \* a dimension name held twice
             dup == \E i, j \in 1..Len(d) : \E m \in 1..Len(d[i]), n \in 1..Len(d[j]) :
                        <<i, m>> # <<j, n>> /\ d[i][m].name = d[j][n].name
         IN  IF dup THEN GResult("ValueError", c) ELSE GResult("None", d)

\* an item assignment that does not compare the name of the value with
\* the key
setitem_any(c, key, value) ==
    IF \A i \in 1..Len(c) : GName(c[i]) # key THEN GResult("KeyError", c)
    ELSE GResult("None", [i \in 1..Len(c) |-> IF GName(c[i]) = key THEN value ELSE c[i]])

\* Coordinates.__setitem__: the exception raised or "None", and the value of
\* coords after the call.  An unnamed value takes the names of the key.
setitem(c, key, value) ==
    LET named == IF \A j \in 1..Len(value) : value[j].name = ""
                 THEN [j \in 1..Len(value) |-> [value[j] EXCEPT !.name = key[j]]]
                 ELSE value
    IN  IF \A i \in 1..Len(c) : GName(c[i]) # key THEN GResult("KeyError", c)
        ELSE IF GName(named) # key THEN GResult("ValueError", c)
        ELSE GResult("None", [i \in 1..Len(c) |-> IF GName(c[i]) = key THEN named ELSE c[i]])

(***************************************************************************)
(* State.                                                                  *)
(*   ucrd   the UniformGridCoord under test                                *)
(*   ucall  the last call made on it: its name and arguments               *)
(*   ubnd   the caller's bounds list as the call left it                   *)
(*   uret   what the call returned                                         *)
(*   ucache the cached properties of the UniformGridCoord under test       *)
(*   sc     the UniformCoordinates1d under test                            *)
(*   scall  the last select call made on it                                *)
(*   sret   what select returned                                           *)
(*   _coords, dims_map   the traits of the Coordinate under test           *)
(*   ccall  the last call made on it: its name and arguments               *)
(*   cret   what the call returned or raised                               *)
(*   gc     the Coordinates under test                                     *)
(*   gcall  the last call made on it: its name and arguments               *)
(*   gret   what the call returned or raised                               *)
(*   objs     the Coordinates1d objects the caller holds: lat, lon, time   *)
(*   stacked  the StackedCoordinates built from them: the positions in     *)
(*            objs of its components, which it shares with the caller      *)
(*   tcall    the last call made on them: its name and arguments           *)
(*   tret     what the call returned or raised                             *)
(***************************************************************************)
VARIABLES ucrd, ucall, ubnd, uret, ucache, sc, scall, sret, _coords, dims_map, ccall, cret,
          gc, gcall, gret, objs, stacked, tcall, tret

uvars == <<ucrd, ucall, ubnd, uret, ucache>>
svars == <<sc, scall, sret>>
cvars == <<_coords, dims_map, ccall, cret>>
gvars == <<gc, gcall, gret>>
tvars == <<objs, stacked, tcall, tret>>
vars == <<ucrd, ucall, ubnd, uret, ucache, sc, scall, sret, _coords, dims_map, ccall, cret,
          gc, gcall, gret, objs, stacked, tcall, tret>>

CoordValues == 0..MaxCoord
BoundValues == (0 - 1)..(MaxCoord + 1)
Steps == {s \in (0 - MaxStep)..MaxStep : s # 0}
Nums == 1..MaxNum
Pads == 0..MaxPad

\* The objects UniformGridCoord.__init__ accepts: num or step, not both.
\* (start, stop, num) with stop = start - 1 has delta = 0, on which
\* intersect_bounds divides by zero; those objects are left out.
UniformGridCoords ==
    {UniformGridCoord(QInt(a), QInt(b), Some(n), None) :
        <<a, b, n>> \in {t \in CoordValues \X CoordValues \X Nums : t[2] - t[1] + 1 # 0}}
    \cup
    {UniformGridCoord(QInt(a), QInt(b), None, Some(QInt(s))) :
        <<a, b, s>> \in CoordValues \X CoordValues \X Steps}

\* After construction of UniformGridCoord(start=0, stop=MaxCoord - 1,
\* step=MaxStep); UNew constructs any other object.
UInit ==
    /\ ucrd = UniformGridCoord(QInt(0), QInt(MaxCoord - 1), None, Some(QInt(MaxStep)))
    /\ ucall = NoCall
    /\ ubnd = <<>>
    /\ uret = RetNone
    /\ ucache = NoCache

\* c = UniformGridCoord(start, stop, num=num) or
\* c = UniformGridCoord(start, stop, step=step)
UNew ==
    /\ ucall.op = "none"
    /\ \E c \in UniformGridCoords :
          /\ ucrd' = c
          /\ ucache' = NoCache
          /\ UNCHANGED <<ucall, ubnd, uret>>
          /\ UNCHANGED <<svars, cvars, gvars, tvars>>

\* The caller makes one call at a time: a call starts when the previous
\* call's result has been dropped (UDrop).
\* c.intersect_bounds(bounds, pad=pad, ind=ind), which reads self.bounds and
\* self.delta
UIntersectBounds ==
    /\ ucall.op = "none"
    /\ \E b0 \in BoundValues, b1 \in BoundValues, pad \in Pads, ind \in BOOLEAN :
          LET b == <<QInt(b0), QInt(b1)>>
          IN  /\ ucall' = [op |-> "intersect_bounds", b |-> b, pad |-> pad,
                           ind |-> ind, other |-> <<>>]
              /\ ubnd' = clipped_bounds(ucrd, b)
              /\ uret' = intersect_bounds(ucrd, b, pad, ind)
              /\ ucache' = read_delta(ucrd, read_bounds(ucrd, ucache).cache).cache
              /\ UNCHANGED ucrd
              /\ UNCHANGED <<svars, cvars, gvars, tvars>>

\* c.intersect(other, pad=pad, ind=ind): intersect_check reads self.bounds,
\* and intersect_bounds is reached when it returns None
UIntersect ==
    /\ ucall.op = "none"
    /\ \E other \in UniformGridCoords, pad \in Pads, ind \in BOOLEAN :
          /\ ucall' = [op |-> "intersect", b |-> bounds(other), pad |-> pad,
                       ind |-> ind, other |-> other]
          /\ ubnd' = IF intersect_check(ucrd, other, ind).kind # "none"
                     THEN bounds(other)
                     ELSE clipped_bounds(ucrd, bounds(other))
          /\ uret' = intersect(ucrd, other, pad, ind)
          /\ ucache' = IF intersect_check(ucrd, other, ind).kind # "none"
                       THEN read_bounds(ucrd, ucache).cache
                       ELSE read_delta(ucrd, read_bounds(ucrd, ucache).cache).cache
          /\ UNCHANGED ucrd
          /\ UNCHANGED <<svars, cvars, gvars, tvars>>

\* r = UniformGridCoord(start, stop, num=num, step=step) with any arguments,
\* num and step each given or left out; ucall.other holds the arguments and
\* uret the new object or the exception.  The object under test stays.
UInitCall ==
    /\ ucall.op = "none"
    /\ \E a \in CoordValues, b \in CoordValues,
          num \in {None} \cup {Some(n) : n \in Nums},
          step \in {None} \cup {Some(QInt(s)) : s \in (0 - MaxStep)..MaxStep} :
          /\ ucall' = [op |-> "new", b |-> <<>>, pad |-> 0, ind |-> FALSE,
                       other |-> UniformGridCoord(QInt(a), QInt(b), num, step)]
          /\ ubnd' = <<>>
          /\ uret' = UniformGridCoord__init__(QInt(a), QInt(b), num, step)
          /\ UNCHANGED <<ucrd, ucache>>
          /\ UNCHANGED <<svars, cvars, gvars, tvars>>

\* the values of the ctype trait (tl.Enum)
CTypes == {"segment", "point", "fence", "post"}

\* c.ctype = ctype; c.segment_position = p; c.extents = extents;
\* r = c.area_bounds, with segment position 0, 1/2 or 1 and with extents
\* None or [-1, 1]; uret.ind holds the returned pair.  An assignment that
\* changes one of the three traits empties the cache of bounds, and
\* area_bounds reads self.bounds and, for a segment or a fence, self.delta.
UAreaBounds ==
    /\ ucall.op = "none"
    /\ \E ctype \in CTypes, p \in {QInt(0), Q(1, 2), QInt(1)},
          extents \in {None, Some(<<QInt(0 - 1), QInt(1)>>)}, changed \in BOOLEAN :
          LET set == IF changed THEN _clear_bounds_cache(ucache) ELSE ucache
              rb == read_bounds(ucrd, set)
          IN  /\ ucall' = [op |-> "area_bounds", b |-> <<>>, pad |-> 0, ind |-> FALSE,
                           other |-> [ctype |-> ctype, segment_position |-> p,
                                      extents |-> extents]]
              /\ ubnd' = <<>>
              /\ uret' = [kind |-> "bounds", crd |-> <<>>,
                          ind |-> area_bounds(ucrd, ctype, p)]
              /\ ucache' = IF ctype \in {"fence", "segment"}
                           THEN read_delta(ucrd, rb.cache).cache ELSE rb.cache
              /\ UNCHANGED ucrd
              /\ UNCHANGED <<svars, cvars, gvars, tvars>>

\* the traits an assignment names, and the values assigned
Fields == {"start", "stop", "num", "step", "coords"}
FieldValues(field) ==
    CASE field \in {"start", "stop"} -> {QInt(a) : a \in CoordValues}
      [] field = "num" -> {Some(n) : n \in Nums}
      [] field = "step" -> {Some(QInt(s)) : s \in Steps}
      [] OTHER -> {None}

\* c.<field> = value
USetAttr ==
    /\ ucall.op = "none"
    /\ \E field \in Fields :
          \E value \in FieldValues(field) :
             /\ ucall' = [op |-> "set", b |-> <<>>, pad |-> 0, ind |-> FALSE,
                          other |-> [field |-> field, value |-> value]]
             /\ ucrd' = setattr(ucrd, ucache, field, value).crd
             /\ ucache' = setattr(ucrd, ucache, field, value).cache
             /\ ubnd' = <<>>
             /\ uret' = [kind |-> setattr(ucrd, ucache, field, value).kind,
                         crd |-> <<>>, ind |-> <<>>]
             /\ UNCHANGED <<svars, cvars, gvars, tvars>>

\* c.ctype = v, c.extents = v or c.segment_position = v, with a value that
\* differs from the current one or not
USetKind ==
    /\ ucall.op = "none"
    /\ \E field \in {"ctype", "extents", "segment_position"}, changed \in BOOLEAN :
          /\ ucall' = [op |-> "set", b |-> <<>>, pad |-> 0, ind |-> FALSE,
                       other |-> [field |-> field, changed |-> changed]]
          /\ ucache' = IF changed THEN _clear_bounds_cache(ucache) ELSE ucache
          /\ ubnd' = <<>>
          /\ uret' = [kind |-> "ok", crd |-> <<>>, ind |-> <<>>]
          /\ UNCHANGED ucrd
          /\ UNCHANGED <<svars, cvars, gvars, tvars>>

\* r = c.bounds, r = c.delta or r = c.coordinates; uret.ind holds the value
\* read
URead ==
    /\ ucall.op = "none"
    /\ \E name \in {"bounds", "delta", "coordinates"} :
          LET r == CASE name = "bounds" -> read_bounds(ucrd, ucache)
                     [] name = "delta" -> read_delta(ucrd, ucache)
                     [] OTHER -> read_coordinates(ucrd, ucache)
          IN  /\ ucall' = [op |-> "read", b |-> <<>>, pad |-> 0, ind |-> FALSE,
                           other |-> name]
              /\ ucache' = r.cache
              /\ ubnd' = <<>>
              /\ uret' = [kind |-> "value", crd |-> <<>>, ind |-> r.val]
              /\ UNCHANGED ucrd
              /\ UNCHANGED <<svars, cvars, gvars, tvars>>

\* the caller drops the result of the last call
UDrop ==
    /\ ucall.op # "none"
    /\ ucall' = NoCall
    /\ ubnd' = <<>>
    /\ uret' = RetNone
    /\ UNCHANGED <<ucrd, ucache>>
    /\ UNCHANGED <<svars, cvars, gvars, tvars>>

UNext == UNew \/ UInitCall \/ UAreaBounds \/ UIntersectBounds \/ UIntersect \/ UDrop

\* assignments to the traits of a UniformGridCoord and reads of its cached
\* properties
KNext == UNew \/ USetAttr \/ USetKind \/ URead \/ UDrop

(***************************************************************************)
(* UniformCoordinates1d.select                                             *)
(***************************************************************************)
SelCoordValues == 0..SelMaxCoord
SelBoundValues == (0 - 1)..(SelMaxCoord + 1)
SelSteps == {k \in (0 - SelMaxStep)..SelMaxStep : k # 0}

\* the objects the constructor accepts: step # 0 and its sign agrees with
\* the order of start and stop
UniformCoordinates1ds ==
    {UniformCoordinates1d(t[1], t[2], t[3]) :
        t \in {t \in SelCoordValues \X SelCoordValues \X SelSteps :
                  \/ t[1] = t[2]
                  \/ t[1] < t[2] /\ t[3] > 0
                  \/ t[1] > t[2] /\ t[3] < 0}}

SelNoCall == [op |-> "none", b |-> <<>>, outer |-> FALSE]

\* After construction of UniformCoordinates1d(0, SelMaxCoord, SelMaxStep).
SInit ==
    /\ sc = UniformCoordinates1d(0, SelMaxCoord, SelMaxStep)
    /\ scall = SelNoCall
    /\ sret = SelEmpty

\* c = UniformCoordinates1d(start, stop, step)
SNew ==
    \E c \in UniformCoordinates1ds :
        /\ scall.op = "none"
        /\ sc' = c
        /\ UNCHANGED <<scall, sret>>
        /\ UNCHANGED <<uvars, cvars, gvars, tvars>>

\* s, I = c.select(bounds, outer=outer, return_indices=True)
SSelect ==
    \E b0 \in SelBoundValues, b1 \in SelBoundValues, outer \in BOOLEAN :
        /\ scall.op = "none"
        /\ scall' = [op |-> "select", b |-> <<b0, b1>>, outer |-> outer]
        /\ sret' = select(sc, <<b0, b1>>, outer)
        /\ UNCHANGED sc
        /\ UNCHANGED <<uvars, cvars, gvars, tvars>>

\* the caller drops the result of the last select
SDrop ==
    /\ scall.op # "none"
    /\ scall' = SelNoCall
    /\ sret' = SelEmpty
    /\ UNCHANGED sc
    /\ UNCHANGED <<uvars, cvars, gvars, tvars>>

SNext == SNew \/ SSelect \/ SDrop

\* the indices of the model for a coordinate of n points: every integer
\* from -n-1 to n, the non-empty slices with bounds None or -n .. n and
\* stride None, 1, 2, -1 or -2, the lists of one or two positions and the
\* boolean masks of length n
Indices(n) ==
    LET Opt(S) == {None} \cup {Some(i) : i \in S}
    IN  {[t |-> "int", v |-> i] : i \in (0 - n - 1)..n}
        \cup {[t |-> "slice", v |-> sl] :
                 sl \in {x \in [start : Opt((0 - n)..n), stop : Opt((0 - n)..n),
                                step : Opt({1, 2, 0 - 1, 0 - 2})] :
                            slice_len(slice_indices(x, n)) > 0}}
        \cup {[t |-> "array", v |-> a] :
                 a \in UNION {[1..m -> 0..(n - 1)] : m \in 1..2}}
        \cup {[t |-> "bool", v |-> a] : a \in [1..n -> BOOLEAN]}

\* c.name = name; c.ctype = ctype; r = c[index]
SGetItem ==
    /\ scall.op = "none"
    /\ \E name \in {"lat", "lon"}, ctype \in {"point", "midpoint"},
          index \in Indices(U1dSize(sc)) :
           /\ scall' = [op |-> "getitem", index |-> index,
                        props |-> [name |-> name, ctype |-> ctype]]
           /\ sret' = getitem(sc, [name |-> name, ctype |-> ctype], index)
           /\ UNCHANGED sc
           /\ UNCHANGED <<uvars, cvars, gvars, tvars>>

INext == SNew \/ SGetItem \/ SDrop

(***************************************************************************)
(* Coordinate: the inputs of the model and its operations.  _coords and    *)
(* dims_map are the two traits of the Coordinate under test.               *)
(***************************************************************************)
Self == Obj(_coords, dims_map)

DimNames == {"lat", "lon", "time"}
\* the dimensions that the model stacks
StackDims == {"lat", "lon"}
\* a name outside _valid_dims
BadName == "x"
Sizes == 1..CMaxSize
CPads == 0..1

\* the array of n consecutive values from a
Arr(a, n) == [i \in 1..n |-> a + i - 1]
\* the arrays of a dimension start at a value of its own
FirstValue(d) == CASE d = "lat" -> 0 [] d = "lon" -> 1 [] OTHER -> 2

\* one key: value pair of the OrderedDict handed to the constructor: an
\* unstacked key with an array, or a two-part key with a list of one, two or
\* three arrays
NewEntries ==
    {[k |-> <<d>>, v |-> ArrayVal(Arr(FirstValue(d), n))] :
        d \in DimNames \cup {BadName}, n \in Sizes}
    \cup
    {[k |-> <<p[1], p[2]>>,
      v |-> ListVal(SubSeq(<<Arr(FirstValue(p[1]), p[3]),
                             Arr(FirstValue(p[2]), p[4]),
                             Arr(FirstValue(p[2]), p[3])>>, 1, p[5]))] :
        p \in StackDims \X StackDims \X Sizes \X Sizes \X (1..3)}

NewCoords ==
    {<<e>> : e \in NewEntries}
    \cup {<<p[1], p[2]>> : p \in {q \in NewEntries \X NewEntries : q[1].k # q[2].k}}

\* Coordinates built from one key, as constructed and after an in-place
\* transpose to one of their dimensions
BuiltOthers == {Coordinate(<<e>>).d : e \in {x \in NewEntries : Coordinate(<<x>>).kind = "ok"}}
ReplaceOthers ==
    BuiltOthers
    \cup UNION {{transpose(o, <<o.coords[i].k>>).obj : i \in 1..Len(o.coords)} :
                    o \in BuiltOthers}

\* unstacked Coordinates of one or two dimensions to intersect with: the
\* array of a dimension covers the CMaxSize values from its first value, or
\* from the value after it
IntersectEntries ==
    {[k |-> <<d>>, v |-> ArrayVal(Arr(FirstValue(d) + a, CMaxSize))] :
        d \in DimNames, a \in 0..1}
IntersectOthers ==
    {Coordinate(<<e>>).d : e \in {x \in IntersectEntries : x.k[1] \in StackDims}}
    \cup {Coordinate(<<p[1], p[2]>>).d :
            p \in {q \in IntersectEntries \X IntersectEntries :
                     q[1].k = <<"lat">> /\ q[2].k = <<"lon">>}}

\* the lists of one or two names of StackDims
StackArgs ==
    {<<d>> : d \in StackDims} \cup {<<p[1], p[2]>> : p \in StackDims \X StackDims}

\* the lists of one or more distinct names
NameLists ==
    {<<d>> : d \in DimNames}
    \cup {<<p[1], p[2]>> : p \in {q \in DimNames \X DimNames : q[1] # q[2]}}
    \cup {<<p[1], p[2], p[3]>> :
            p \in {q \in DimNames \X DimNames \X DimNames :
                     q[1] # q[2] /\ q[1] # q[3] /\ q[2] # q[3]}}

CNoCall == [op |-> "none", arg |-> <<>>]
Call(op, arg) == [op |-> op, arg |-> arg]
NoResult == Result("none", <<>>)

\* c = Coordinate(coords=OrderedDict())
CInit ==
    /\ _coords = <<>>
    /\ dims_map = <<>>
    /\ ccall = CNoCall
    /\ cret = NoResult

\* c = Coordinate(coords=coords): the name c is bound to the new object, or
\* keeps the empty one when the constructor raises
CNew ==
    /\ ccall.op = "none"
    /\ Self = EmptyObj
    /\ \E coords \in NewCoords :
          /\ ccall' = Call("new", coords)
          /\ IF Coordinate(coords).kind = "ok"
             THEN /\ _coords' = Coordinate(coords).d.coords
                  /\ dims_map' = Coordinate(coords).d.dims_map
                  /\ cret' = Result("ok", <<>>)
             ELSE /\ cret' = Result(Coordinate(coords).kind, <<>>)
                  /\ UNCHANGED <<_coords, dims_map>>
          /\ UNCHANGED <<uvars, svars, gvars, tvars>>

\* c = Coordinate(coords=OrderedDict())
CNewEmpty ==
    /\ ccall.op = "none"
    /\ Self # EmptyObj
    /\ _coords' = Coordinate(<<>>).d.coords
    /\ dims_map' = Coordinate(<<>>).d.dims_map
    /\ UNCHANGED <<ccall, cret>>
    /\ UNCHANGED <<uvars, svars, gvars, tvars>>

\* c.stack(stack_dims, copy=False)
CStack ==
    /\ ccall.op = "none"
    /\ \E stack_dims \in StackArgs :
          /\ ccall' = Call("stack", stack_dims)
          /\ _coords' = stack(Self, stack_dims).obj.coords
          /\ dims_map' = stack(Self, stack_dims).obj.dims_map
          /\ cret' = Result(stack(Self, stack_dims).kind, <<>>)
          /\ UNCHANGED <<uvars, svars, gvars, tvars>>

\* c.unstack(copy=False)
CUnstack ==
    /\ ccall.op = "none"
    /\ ccall' = Call("unstack", <<>>)
    /\ _coords' = unstack(Self).coords
    /\ dims_map' = unstack(Self).dims_map
    /\ cret' = Result("ok", <<>>)
    /\ UNCHANGED <<uvars, svars, gvars, tvars>>

\* c.replace_coords(other, copy=False)
CReplaceCoords ==
    /\ ccall.op = "none"
    /\ \E other \in ReplaceOthers :
          /\ ccall' = Call("replace_coords", other)
          /\ _coords' = replace_coords(Self, other).coords
          /\ dims_map' = replace_coords(Self, other).dims_map
          /\ cret' = Result("ok", <<>>)
          /\ UNCHANGED <<uvars, svars, gvars, tvars>>

\* c.drop_dims(*args)
CDropDims ==
    /\ ccall.op = "none"
    /\ \E args \in NameLists :
          /\ ccall' = Call("drop_dims", args)
          /\ _coords' = drop_dims(Self, args).coords
          /\ dims_map' = drop_dims(Self, args).dims_map
          /\ cret' = Result("ok", <<>>)
          /\ UNCHANGED <<uvars, svars, gvars, tvars>>

\* c.transpose(*ds, in_place=True) with one or more dims
CTranspose ==
    /\ ccall.op = "none"
    /\ \E ds \in NameLists :
          /\ ccall' = Call("transpose", ds)
          /\ _coords' = transpose(Self, ds).obj.coords
          /\ dims_map' = transpose(Self, ds).obj.dims_map
          /\ cret' = Result(transpose(Self, ds).kind, <<>>)
          /\ UNCHANGED <<uvars, svars, gvars, tvars>>

\* c.transpose(in_place=True): dims = self._coords.keys()[::-1] is the list
\* of keys reversed under Python 2 and a TypeError under Python 3, where the
\* keys view cannot be subscripted
CTransposeReverse ==
    /\ ccall.op = "none"
    /\ \E py3 \in BOOLEAN :
          /\ ccall' = Call("transpose", <<>>)
          /\ IF py3
             THEN /\ cret' = Result("TypeError", <<>>)
                  /\ UNCHANGED <<_coords, dims_map>>
             ELSE /\ _coords' = transpose(Self, Reverse(OKeys(_coords))).obj.coords
                  /\ UNCHANGED dims_map
                  /\ cret' = Result(transpose(Self, Reverse(OKeys(_coords))).kind, <<>>)
          /\ UNCHANGED <<uvars, svars, gvars, tvars>>

\* c.intersect(other, pad=pad, ind=ind)
CIntersect ==
    /\ ccall.op = "none"
    /\ \E other \in IntersectOthers, pad \in CPads, ind \in BOOLEAN :
          /\ ccall' = Call("intersect", [other |-> other, pad |-> pad, ind |-> ind])
          /\ cret' = Coordinate_intersect(Self, other, pad, ind)
          /\ UNCHANGED <<_coords, dims_map>>
          /\ UNCHANGED <<uvars, svars, gvars, tvars>>

\* the shapes of one entry per dimension of the Coordinate under test
ChunkShapes == {<<>>} \cup {<<a>> : a \in Sizes} \cup (Sizes \X Sizes)

\* r = list(c.iterchunks(shape, return_slice=True)) on an unstacked c, under
\* Python 2 or Python 3
CIterChunks ==
    /\ ccall.op = "none"
    /\ ~is_stacked(Self)
    /\ \E shp \in ChunkShapes, py3 \in BOOLEAN :
          /\ Len(shp) = Len(shape(Self))
          /\ ccall' = Call("iterchunks", shp)
          /\ cret' = iterchunks(Self, shp, py3)
          /\ UNCHANGED <<_coords, dims_map>>
          /\ UNCHANGED <<uvars, svars, gvars, tvars>>

\* the Coordinates added to the one under test
AddOthers == IntersectOthers \cup BuiltOthers

\* r = c + other (unique False) or r = c.add_unique(other), for arrays that
\* numpy can compare element by element
CAdd ==
    /\ ccall.op = "none"
    /\ \E other \in AddOthers, unique \in BOOLEAN :
          /\ \A i \in 1..Len(other.coords) :
                OHas(_coords, other.coords[i].k) =>
                   LET n == Len(OGet(_coords, other.coords[i].k))
                       m == Len(other.coords[i].v)
                   IN  n = m \/ n = 1 \/ m = 1
          /\ ccall' = Call("_add", [other |-> other, unique |-> unique])
          /\ cret' = Result(_add(Self, other, unique).kind, _add(Self, other, unique).val)
          /\ dims_map' = _add(Self, other, unique).dims_map
          /\ UNCHANGED _coords
          /\ UNCHANGED <<uvars, svars, gvars, tvars>>

\* the caller is done with the result of the last call
CReturn ==
    /\ ccall.op # "none"
    /\ ccall' = CNoCall
    /\ cret' = NoResult
    /\ UNCHANGED <<_coords, dims_map>>
    /\ UNCHANGED <<uvars, svars, gvars, tvars>>

CNext ==
    \/ CNew \/ CNewEmpty \/ CStack \/ CUnstack \/ CReplaceCoords \/ CDropDims
    \/ CTranspose \/ CTransposeReverse \/ CIntersect \/ CIterChunks \/ CReturn

\* the calls that construct a Coordinate or change it in place
MNext ==
    \/ CNew \/ CNewEmpty \/ CStack \/ CUnstack \/ CReplaceCoords \/ CDropDims
    \/ CTranspose \/ CTransposeReverse \/ CReturn

\* construction and addition
ANext == CNew \/ CNewEmpty \/ CAdd \/ CReturn

(***************************************************************************)
(* Coordinates: the inputs of the model and its operations.                *)
(***************************************************************************)
GCTypes == {"midpoint", "point"}

\* the values of the model with the given ctype, sizes and unstacked
\* dimensions: an unstacked array, ascending or descending, a uniform time,
\* and lat_lon or lon_lat stacked from arrays of one size, the second one
\* in either order
GValues(ctype, sizes, ds) ==
    LET A(d, n, desc) ==
            Coordinates1d(d, ctype, FALSE,
                          [i \in 1..n |-> FirstValue(d) + (IF desc THEN n - i ELSE i - 1)])
    IN  {<<A(d, n, desc)>> : d \in ds, n \in sizes, desc \in BOOLEAN}
        \cup {<<Coordinates1d("time", ctype, TRUE, <<2, 1 + n, 1>>)>> : n \in sizes}
        \cup {<<A(d[1], n, FALSE), A(d[2], n, desc)>> :
                 d \in {<<"lat", "lon">>, <<"lon", "lat">>}, n \in sizes, desc \in BOOLEAN}

\* Coordinates(values, ctype=ctype) of one or two of the given values with
\* no dimension in common
GCoordinatesOf(sizes, ds) ==
    UNION {{<<v>> : v \in GValues(ctype, sizes, ds)}
           \cup {<<p[1], p[2]>> :
                    p \in {q \in GValues(ctype, sizes, ds) \X GValues(ctype, sizes, ds) :
                              SeqSet(GName(q[1])) \cap SeqSet(GName(q[2])) = {}}} :
           ctype \in GCTypes}

\* the Coordinates the model constructs for the object under test, and those
\* it passes as the other argument of a call
GCoordinates == GCoordinatesOf(1..GMaxSize, {"lat", "time"})
GOthers == GCoordinatesOf({GMaxSize}, {"lat", "time", "alt"})

GInit ==
    /\ gc = <<<<Coordinates1d("lat", "midpoint", FALSE, <<0>>),
                Coordinates1d("lon", "midpoint", FALSE, <<1>>)>>>>
    /\ gcall = CNoCall
    /\ gret = GResult("none", <<>>)

\* coords = Coordinates(values, ctype=ctype)
GNew ==
    /\ gcall.op = "none"
    /\ gc' \in GCoordinates
    /\ UNCHANGED <<gcall, gret>>
    /\ UNCHANGED <<uvars, svars, cvars, tvars>>

\* r = coords[key][index] for a stacked key of coords, the index being a
\* dimension name or an index of its points
GStackedGetItem ==
    /\ gcall.op = "none"
    /\ \E i \in 1..Len(gc) :
          /\ Len(gc[i]) > 1
          /\ \E index \in Indices(Len(C1dCoordinates(gc[i][1])))
                          \cup {[t |-> "name", v |-> d] : d \in {"lat", "lon", "time", "other"}} :
                /\ gcall' = Call("getitem", [key |-> GName(gc[i]), index |-> index])
                /\ gret' = StackedCoordinates_getitem(gc[i], index)
    /\ UNCHANGED gc
    /\ UNCHANGED <<uvars, svars, cvars, tvars>>

\* r = Coordinates.from_definition(coords.definition) and
\* r = Coordinates.from_json(coords.json)
GRoundTrip ==
    /\ gcall.op = "none"
    /\ gcall' = Call("definition", json(gc))
    /\ gret' = GResult("Coordinates",
                       [definition |-> from_definition(definition(gc)),
                        json |-> from_json(json(gc))])
    /\ UNCHANGED gc
    /\ UNCHANGED <<uvars, svars, cvars, tvars>>

\* r = (coords == other); h = coords.hash; h2 = other.hash
GCompare ==
    /\ gcall.op = "none"
    /\ \E other \in GOthers :
          /\ gcall' = Call("eq", other)
          /\ gret' = GResult("bool", [eq |-> Coordinates_eq(gc, other),
                                      hash |-> Coordinates_hash(gc),
                                      other_hash |-> Coordinates_hash(other)])
    /\ UNCHANGED gc
    /\ UNCHANGED <<uvars, svars, cvars, tvars>>

\* c2 = deepcopy(coords); c2.update(other), other being a Coordinates or a
\* dict; gret holds what the call raised and c2 after the call
GUpdate ==
    /\ gcall.op = "none"
    /\ \E other \in {[cls |-> "Coordinates", v |-> o] : o \in GOthers}
                    \cup {[cls |-> "dict", v |-> <<>>]} :
          /\ gcall' = Call("update", other)
          /\ gret' = update(gc, other)
    /\ UNCHANGED gc
    /\ UNCHANGED <<uvars, svars, cvars, tvars>>

\* c2 = deepcopy(coords); c2[key] = value, the key being one of coords or
\* not, and the value a named or an unnamed one with as many components as
\* the key has parts; gret holds what the call raised and c2 after the call
GSetItem ==
    /\ gcall.op = "none"
    /\ \E key \in {<<"lat">>, <<"time">>, <<"alt">>, <<"lat", "lon">>},
          v \in UNION {GValues(ctype, {GMaxSize}, {"lat", "time", "alt"}) : ctype \in GCTypes},
          unnamed \in BOOLEAN :
          LET value == IF unnamed THEN [j \in 1..Len(v) |-> [v[j] EXCEPT !.name = ""]]
                       ELSE v
          IN  /\ unnamed => Len(v) = Len(key)
              /\ gcall' = Call("setitem", [key |-> key, value |-> value])
              /\ gret' = setitem(gc, key, value)
    /\ UNCHANGED gc
    /\ UNCHANGED <<uvars, svars, cvars, tvars>>

\* the caller drops the result of the last call
GReturn ==
    /\ gcall.op # "none"
    /\ gcall' = CNoCall
    /\ gret' = GResult("none", <<>>)
    /\ UNCHANGED gc
    /\ UNCHANGED <<uvars, svars, cvars, tvars>>

GNext == GNew \/ GStackedGetItem \/ GRoundTrip \/ GCompare \/ GUpdate \/ GSetItem \/ GReturn

(***************************************************************************)
(* StackedCoordinates and the component objects it shares with its caller. *)
(* A component is [name, ctype, explicit, v]: explicit tells whether its   *)
(* ctype was set, name "" is None. A name 'lat_lon' is the tuple of its    *)
(* parts <<"lat", "lon">>.                                                 *)
(***************************************************************************)
\* ArrayCoordinates1d(values, name=name, ctype=ctype)
ArrayCoordinates1d(values, name, ctype) ==
    [name |-> name,
     ctype |-> IF ctype = None THEN "midpoint" ELSE ctype[1],
     explicit |-> ctype # None,
     v |-> values]

TResult(kind, val) == [kind |-> kind, val |-> val]

\* the ctype of a component overwritten whether it was set or not
set_ctype_always(c, ctype) ==
    [c EXCEPT !.ctype = ctype, !.explicit = TRUE]

\* the ctype of the stack given to a component that has none set
set_ctype(c, ctype) ==
    IF c.explicit THEN c ELSE [c EXCEPT !.ctype = ctype, !.explicit = TRUE]

\* StackedCoordinates([heap[r] : r in refs], ctype=ctype): what it raises,
\* or the objects after the call
StackedCoordinates(heap, refs, ctype) ==
    LET n == Len(refs)
        c(i) == heap[refs[i]]
    IN  IF n < 2
        THEN [kind |-> "ValueError", heap |-> heap]
        ELSE IF \E i \in 1..n : Len(c(i).v) # Len(c(1).v)
        THEN [kind |-> "ValueError", heap |-> heap]
        ELSE IF \E i, j \in 1..n : i < j /\ c(i).name # "" /\ c(i).name = c(j).name
        THEN [kind |-> "ValueError", heap |-> heap]
        ELSE [kind |-> "ok",
              heap |-> [k \in DOMAIN heap |->
                           IF ctype # None /\ k \in SeqSet(refs)
                           THEN set_ctype(heap[k], ctype[1])
                           ELSE heap[k]]]

\* c.name
StackedCoordinates_name(heap, refs) ==
    [i \in 1..Len(refs) |-> IF heap[refs[i]].name = "" THEN "?" ELSE heap[refs[i]].name]

\* c.name = value, without the check for repeated parts
set_name_unchecked(heap, refs, value) ==
    IF Len(value) # Len(refs)
    THEN [kind |-> "ValueError", heap |-> heap]
    ELSE [kind |-> "ok",
          heap |-> [k \in DOMAIN heap |->
                       IF \E i \in 1..Len(refs) : refs[i] = k
                       THEN [heap[k] EXCEPT
                                !.name = value[CHOOSE i \in 1..Len(refs) : refs[i] = k]]
                       ELSE heap[k]]]

\* c.name = value
set_name(heap, refs, value) ==
    IF Len(value) # Len(refs)
    THEN [kind |-> "ValueError", heap |-> heap]
    ELSE IF \E i, j \in 1..Len(value) : i < j /\ value[i] = value[j]
    THEN [kind |-> "ValueError", heap |-> heap]
    ELSE [kind |-> "ok",
          heap |-> [k \in DOMAIN heap |->
                       IF \E i \in 1..Len(refs) : refs[i] = k
                       THEN [heap[k] EXCEPT
                                !.name = value[CHOOSE i \in 1..Len(refs) : refs[i] = k]]
                       ELSE heap[k]]]

\* the objects the caller constructs: lat, a second one named lon or lat,
\* and time, each with or without a name and an explicit ctype, the last
\* one of any size
TNames == <<{"lat"}, {"lon", "lat"}, {"time"}>>
TObjects ==
    {<<ArrayCoordinates1d([i \in 1..GMaxSize |-> i - 1], n[1], t[1]),
       ArrayCoordinates1d([i \in 1..GMaxSize |-> 10 * i], n[2], t[2]),
       ArrayCoordinates1d([i \in 1..k |-> 2 + i], n[3], t[3])>> :
        n \in {m \in [1..3 -> {"", "lat", "lon", "time"}] :
                  \A i \in 1..3 : m[i] = "" \/ m[i] \in TNames[i]},
        t \in [1..3 -> {None, Some("right")}],
        k \in 1..GMaxSize}

\* the components passed to StackedCoordinates, in the caller's order
TRefs == {<<1>>, <<1, 2>>, <<1, 3>>, <<2, 3>>, <<1, 2, 3>>}

\* the names assigned: two or three parts
TNameValues ==
    {v \in UNION {[1..n -> {"lat", "lon", "time"}] : n \in 2..3} :
        v[1] \in {"lat", "lon"}}

TNoCall == [op |-> "none", refs |-> <<>>, arg |-> <<>>]

TInit ==
    /\ objs = <<ArrayCoordinates1d(<<0>>, "lat", None),
                ArrayCoordinates1d(<<10>>, "lon", None),
                ArrayCoordinates1d(<<3>>, "time", None)>>
    /\ stacked = <<>>
    /\ tcall = TNoCall
    /\ tret = TResult("none", <<>>)

\* lat = ArrayCoordinates1d(...); lon = ...; time = ...
TNew ==
    /\ tcall.op = "none"
    /\ objs' \in TObjects
    /\ stacked' = <<>>
    /\ UNCHANGED <<tcall, tret>>
    /\ UNCHANGED <<uvars, svars, cvars, gvars>>

\* c = StackedCoordinates([...], ctype=ctype)
TStack ==
    /\ tcall.op = "none"
    /\ \E refs \in TRefs, ctype \in {None, Some("point")} :
          LET r == StackedCoordinates(objs, refs, ctype)
          IN  /\ tcall' = [op |-> "StackedCoordinates", refs |-> refs, arg |-> ctype]
              /\ objs' = r.heap
              /\ stacked' = IF r.kind = "ok" THEN refs ELSE stacked
              /\ tret' = TResult(r.kind, <<>>)
    /\ UNCHANGED <<uvars, svars, cvars, gvars>>

\* c.name
TName ==
    /\ tcall.op = "none"
    /\ stacked # <<>>
    /\ tcall' = [op |-> "name", refs |-> stacked, arg |-> <<>>]
    /\ tret' = TResult("ok", StackedCoordinates_name(objs, stacked))
    /\ UNCHANGED <<objs, stacked>>
    /\ UNCHANGED <<uvars, svars, cvars, gvars>>

\* c.name = value
TSetName ==
    /\ tcall.op = "none"
    /\ stacked # <<>>
    /\ \E value \in TNameValues :
          LET r == set_name(objs, stacked, value)
          IN  /\ tcall' = [op |-> "set_name", refs |-> stacked, arg |-> value]
              /\ objs' = r.heap
              /\ tret' = TResult(r.kind, <<>>)
    /\ UNCHANGED stacked
    /\ UNCHANGED <<uvars, svars, cvars, gvars>>

\* the caller drops the result of the last call
TReturn ==
    /\ tcall.op # "none"
    /\ tcall' = TNoCall
    /\ tret' = TResult("none", <<>>)
    /\ UNCHANGED <<objs, stacked>>
    /\ UNCHANGED <<uvars, svars, cvars, gvars>>

TNext == TNew \/ TStack \/ TName \/ TSetName \/ TReturn

(***************************************************************************)
(* Specifications: one per component, the other components idle.           *)
(***************************************************************************)
Init == UInit /\ SInit /\ CInit /\ GInit /\ TInit
Next == UNext
Spec == Init /\ [][Next]_vars

SpecSel == Init /\ [][SNext]_vars

SpecC == Init /\ [][CNext]_vars
\* the cached properties of UniformGridCoord
SpecCache == Init /\ [][KNext]_vars
\* the in-place operations of Coordinate
SpecMut == Init /\ [][MNext]_vars
\* the addition of Coordinates
SpecAdd == Init /\ [][ANext]_vars
\* UniformCoordinates1d indexing
SpecIdx == Init /\ [][INext]_vars
\* Coordinates and StackedCoordinates
SpecG == Init /\ [][GNext]_vars
\* StackedCoordinates and its components
SpecStacked == Init /\ [][TNext]_vars

(***************************************************************************)
(* Claims about the 1-D uniform coordinate, stated on UniformGridCoord.    *)
(* select(bounds, return_indices=...) is intersect_bounds(bounds, ind=...) *)
(* and an index pair [imin, imax] selects coordinates[imin:imax].          *)
(***************************************************************************)
\* a coordinate the documented constructor contract allows: the sign of step
\* agrees with the order of start and stop; at least two points when the
\* number of points is given and start differs from stop
WellFormed(c) ==
    IF c.step # None
    THEN \/ c.start = c.stop
         \/ QLt(c.start, c.stop) /\ QLt(QInt(0), c.step[1])
         \/ QLt(c.stop, c.start) /\ QLt(c.step[1], QInt(0))
    ELSE c.start = c.stop \/ c.num[1] >= 2

\* the smallest and the largest value of a non-empty sequence of rationals
MinOf(a) == CHOOSE x \in {a[i] : i \in 1..Len(a)} : \A j \in 1..Len(a) : QLe(x, a[j])
MaxOf(a) == CHOOSE x \in {a[i] : i \in 1..Len(a)} : \A j \in 1..Len(a) : QLe(a[j], x)

\* C1: select with return_indices returns (s, I) with c.coordinates[I] equal
\* to s.coordinates, element for element: after an index-returning
\* intersect_bounds call, the coordinates at the returned index pair are the
\* coordinates of the object the same call returns without ind.
C1_IndicesSelectResult ==
    (ucall.op = "intersect_bounds" /\ ucall.ind /\ WellFormed(ucrd))
        => Slice(coordinates(ucrd), uret.ind[1], uret.ind[2])
             = coordinates(intersect_bounds(ucrd, ucall.b, ucall.pad, FALSE).crd)

\* two results are the same result: the same exception, the same selected
\* coordinates of c, or coordinate objects with the same coordinates
SameResult(c, r1, r2) ==
    /\ r1.kind = r2.kind
    /\ r1.kind = "ind" => Slice(coordinates(c), r1.ind[1], r1.ind[2])
                            = Slice(coordinates(c), r2.ind[1], r2.ind[2])
    /\ r1.kind = "crd" => coordinates(r1.crd) = coordinates(r2.crd)

\* C4: c.intersect(other, outer, return_indices) returns what
\* c.select(other.bounds, outer, return_indices) returns, a uniform
\* coordinate when no indices are asked for.
C4_IntersectIsSelectOfBounds ==
    (ucall.op = "intersect" /\ WellFormed(ucrd) /\ WellFormed(ucall.other))
        => /\ SameResult(ucrd, uret,
                         intersect_bounds(ucrd, bounds(ucall.other), ucall.pad, ucall.ind))
           /\ ~ucall.ind => uret.kind = "crd"

\* C9: bounds is (smallest coordinate, largest coordinate) for ascending and
\* descending construction, and is_descending is (start > stop) when there
\* is more than one coordinate and None when there is exactly one.
C9_BoundsAreMinMax ==
    (WellFormed(ucrd) /\ Len(coordinates(ucrd)) >= 1)
        => /\ bounds(ucrd) = <<MinOf(coordinates(ucrd)), MaxOf(coordinates(ucrd))>>
           /\ Some(is_max_to_min(ucrd))
                = IF Len(coordinates(ucrd)) > 1
                  THEN Some(QLt(ucrd.stop, ucrd.start)) ELSE None

\* C10: with a step whose sign agrees with stop - start, size is
\* floor((stop - start) / step) + 1, coordinates[k] = start + k * step, and
\* bounds are the first and the last actual coordinate.
C10_SizeAndCoordinatesFromStep ==
    (WellFormed(ucrd) /\ ucrd.step # None)
        => LET n == QFloor(QDiv(QSub(ucrd.stop, ucrd.start), ucrd.step[1])) + 1
               last == QAdd(ucrd.start, QMul(QInt(n - 1), ucrd.step[1]))
           IN  /\ size(ucrd) = n
               /\ coordinates(ucrd)
                    = [k \in 1..n |-> QAdd(ucrd.start, QMul(QInt(k - 1), ucrd.step[1]))]
               /\ bounds(ucrd) = <<QMin(ucrd.start, last), QMax(ucrd.start, last)>>

(***************************************************************************)
(* Claims about UniformCoordinates1d.select (SpecSel).                     *)
(***************************************************************************)
\* the members of a sequence of integers that lie in [lo, hi], in order
Within(a, lo, hi) == LET In(v) == lo <= v /\ v <= hi IN SelectSeq(a, In)

SeqValues(a) == {a[i] : i \in 1..Len(a)}
MaxInt(S) == CHOOSE x \in S : \A y \in S : y <= x
MinInt(S) == CHOOSE x \in S : \A y \in S : x <= y

Overlaps(c, b) == b[1] <= b[2] /\ b[1] <= U1dBounds(c)[2] /\ b[2] >= U1dBounds(c)[1]

\* the largest coordinate strictly below x, the lowest coordinate if none
OuterLow(c, x) ==
    LET below == {v \in SeqValues(U1dCoordinates(c)) : v < x}
    IN  IF below = {} THEN U1dBounds(c)[1] ELSE MaxInt(below)

\* the smallest coordinate strictly above x, the highest coordinate if none
OuterHigh(c, x) ==
    LET above == {v \in SeqValues(U1dCoordinates(c)) : v > x}
    IN  IF above = {} THEN U1dBounds(c)[2] ELSE MinInt(above)

KeptRows(o, other, pad, k) ==
    {x \in 0..(Len(OGet(o.coords, k)) - 1) :
        \A i \in 1..Len(o.coords) :
            (/\ OGet(o.dims_map, o.coords[i].k) = OGet(o.dims_map, k)
             /\ OHas(other.coords, o.coords[i].k))
                => x \in SliceIndices(coord_intersect_ind(o.coords[i].v,
                                                          OGet(other.coords, o.coords[i].k),
                                                          pad),
                                      Len(o.coords[i].v))}

\* the names of o are distinct, every name is stored under a key that names
\* it, and dims_map and _coords hold the same dimensions
ConsistentNames(o) ==
    /\ OKeys(o.dims_map) = OKeys(o.coords)
    /\ \A i \in 1..Len(o.dims_map) :
           /\ o.dims_map[i].k \in SeqSet(o.dims_map[i].v)
           /\ \A j, h \in 1..Len(o.dims_map[i].v) :
                  o.dims_map[i].v[j] = o.dims_map[i].v[h] => j = h
           /\ \A j \in 1..Len(o.dims_map[i].v) :
                  /\ OHas(o.dims_map, o.dims_map[i].v[j])
                  /\ OGet(o.dims_map, o.dims_map[i].v[j]) = o.dims_map[i].v

\* C5: for a Coordinate a whose names are distinct and whose dims_map and
\* _coords hold the same dimensions, a.intersect(b) returns a new Coordinate
\* with a's key order in which a dimension absent from b passes through
\* unchanged, a shared unstacked dimension is intersected on its own, and a
\* stacked key keeps exactly the rows that lie in the intersection of every
\* shared component, so that the components of a stacked key of the result
\* have equal size.
C5_IntersectKeepsCommonRows ==
    (ccall.op = "intersect" /\ ~ccall.arg.ind /\ ConsistentNames(Self))
        => /\ cret.kind = "crd"
           /\ dims(cret.val) = dims(Self)
           /\ SeqSet(OKeys(cret.val.coords)) = SeqSet(OKeys(_coords))
           /\ \A i \in 1..Len(_coords) :
                  OGet(cret.val.coords, _coords[i].k)
                    = Take(_coords[i].v,
                           KeptRows(Self, ccall.arg.other, ccall.arg.pad, _coords[i].k))
           /\ \A i, j \in 1..Len(cret.val.coords) :
                  OGet(cret.val.dims_map, cret.val.coords[i].k)
                      = OGet(cret.val.dims_map, cret.val.coords[j].k)
                    => Len(cret.val.coords[i].v) = Len(cret.val.coords[j].v)

\* the stacked key each dimension of _coords is stored under, in the order of
\* _coords and without repetition
StoredKeys(o) == Unique([i \in 1..Len(o.coords) |-> OGet(o.dims_map, o.coords[i].k)])

RECURSIVE Flatten(_)
\* the parts of a sequence of keys, one after the other
Flatten(keys) == IF keys = <<>> THEN <<>> ELSE Head(keys) \o Flatten(Tail(keys))

NoRepeat(s) == \A i, j \in 1..Len(s) : s[i] = s[j] => i = j

\* C6: for every Coordinate (whose names are not repeated), dims lists the
\* keys as stored and shape is the size of each key in dims order, with a
\* stacked key counted once, by the first of its dimensions (so
\* ndim = len(dims) = len(shape)).
C6_DimsAndShapeAgree ==
    NoRepeat(Flatten(dims(Self)))
        => /\ dims(Self) = StoredKeys(Self)
           /\ Len(shape(Self)) = Len(dims(Self))
           /\ \A i \in 1..Len(dims(Self)) :
                  LET stored == {j \in 1..Len(_coords) :
                                    OGet(dims_map, _coords[j].k) = dims(Self)[i]}
                  IN  shape(Self)[i]
                        = Len(_coords[CHOOSE j \in stored : \A h \in stored : j <= h].v)

\* the dimensions stored under one stacked key have the same size
EqualStackedSizes(o) ==
    \A i, j \in 1..Len(o.coords) :
        OGet(o.dims_map, o.coords[i].k) = OGet(o.dims_map, o.coords[j].k)
          => Len(o.coords[i].v) = Len(o.coords[j].v)

\* a constructor argument with distinct names and a stacked key that comes
\* with one array per part, of different sizes
MismatchedEntry(coords) ==
    /\ NoRepeat(Flatten(OKeys(coords)))
    /\ \E i \in 1..Len(coords) :
           /\ Len(coords[i].k) > 1
           /\ Len(coords[i].v.a) = Len(coords[i].k)
           /\ \E m, n \in 1..Len(coords[i].v.a) :
                  Len(coords[i].v.a[m]) # Len(coords[i].v.a[n])

\* C7: the components of a stacked dimension always have equal size:
\* construction with mismatched component sizes raises ValueError, and the
\* dimensions stored under one stacked key have equal size after every
\* in-place stack, unstack, replace_coords, drop_dims and transpose.
C7_StackedSizesEqual ==
    /\ EqualStackedSizes(Self)
    /\ (ccall.op = "new" /\ MismatchedEntry(ccall.arg)) => cret.kind = "ValueError"

\* a constructor argument in which the number of arrays of a stacked key is
\* not the number of its parts
CountMismatch(coords) ==
    \E i \in 1..Len(coords) :
        Len(coords[i].k) > 1 /\ Len(coords[i].v.a) # Len(coords[i].k)

\* C8: no dimension name appears twice in a Coordinate, as a key or as a
\* component of a stacked key: construction with a repeated name or with a
\* count mismatch between names and arrays raises ValueError.
C8_NoRepeatedDimension ==
    /\ NoRepeat(Flatten(dims(Self)))
    /\ (ccall.op = "new" /\ ~NoRepeat(Flatten(OKeys(ccall.arg)))) => cret.kind = "ValueError"
    /\ (ccall.op = "new" /\ CountMismatch(ccall.arg)) => cret.kind = "ValueError"

(***************************************************************************)
(* Claims about UniformGridCoord given by a number of points (Spec).       *)
(***************************************************************************)
\* C11: a uniform coordinate given by (start, stop, size = n) with n >= 2
\* has exactly n coordinates, the first equal to start and the last equal
\* to stop, and its derived step is (stop - start) / (n - 1), which is
\* negative when start > stop.  (Stated for start # stop.)
C11_SizeGivesEndpointsAndStep ==
    (ucrd.num # None /\ ucrd.num[1] >= 2 /\ ucrd.start # ucrd.stop)
        => LET n == ucrd.num[1]
           IN  /\ Len(coordinates(ucrd)) = n
               /\ size(ucrd) = n
               /\ coordinates(ucrd)[1] = ucrd.start
               /\ coordinates(ucrd)[n] = ucrd.stop
               /\ delta(ucrd) = QDiv(QSub(ucrd.stop, ucrd.start), QInt(n - 1))
               /\ QLt(ucrd.stop, ucrd.start) => QLt(delta(ucrd), QInt(0))

\* C12: constructing a uniform coordinate fails and creates no object when
\* step is 0, when the sign of step disagrees with the order of start and
\* stop, when both step and size are given, and when neither is given.
C12_InvalidInitRaises ==
    ucall.op = "new"
        => LET a == ucall.other
               ZeroStep == a.step # None /\ a.step[1] = QInt(0)
               WrongSign == /\ a.step # None
                            /\ \/ QLt(a.start, a.stop) /\ QLt(a.step[1], QInt(0))
                               \/ QLt(a.stop, a.start) /\ QLt(QInt(0), a.step[1])
               Both == a.step # None /\ a.num # None
               Neither == a.step = None /\ a.num = None
           IN  (ZeroStep \/ WrongSign \/ Both \/ Neither) => uret.kind = "raise"

\* C13: area_bounds equals bounds for a point coordinate; for a segment
\* whose coordinate is its left end ('left', segment_position 0) the upper
\* bound is raised by |step|; for its right end ('right', segment_position
\* 1) the lower bound is lowered by |step|; for its midpoint
\* (segment_position 1/2) both bounds move outward by |step| / 2; this is so
\* for ascending and descending construction and for a singleton, and
\* explicit extents replace the result entirely.
C13_AreaBoundsByCtype ==
    (ucall.op = "area_bounds" /\ WellFormed(ucrd) /\ ucrd.step # None
        /\ ucall.other.ctype \in {"point", "segment"})
        => LET a == ucall.other
               b == bounds(ucrd)
               s == QAbs(ucrd.step[1])
               p == a.segment_position
           IN  uret.ind =
                 IF a.extents # None THEN a.extents[1]
                 ELSE IF a.ctype = "point" THEN b
                 ELSE <<QSub(b[1], QMul(p, s)), QAdd(b[2], QMul(QSub(QInt(1), p), s))>>

(***************************************************************************)
(* Claims about UniformCoordinates1d indexing (SpecIdx).                   *)
(***************************************************************************)
\* an integer index is valid for n points when it is in -n .. n - 1; the
\* other indices of the model are valid
ValidIndex(index, n) == index.t = "int" => (index.v < n /\ index.v >= 0 - n)

\* c.coordinates[index], the way Python and numpy index a sequence
Indexed(c, index) ==
    LET n == U1dSize(c)
        crd == U1dCoordinates(c)
        r == slice_indices(index.v, n)
        On == {q \in 1..n : index.v[q]}
        Nth(j) == CHOOSE q \in On : Cardinality({x \in On : x <= q}) = j
    IN  CASE index.t = "int" -> <<crd[(IF index.v < 0 THEN index.v + n ELSE index.v) + 1]>>
          [] index.t = "slice" -> [j \in 1..slice_len(r) |-> crd[r[1] + (j - 1) * r[3] + 1]]
          [] index.t = "array" -> [j \in 1..Len(index.v) |-> crd[index.v[j] + 1]]
          [] index.t = "bool" -> [j \in 1..Cardinality(On) |-> crd[Nth(j)]]

\* the coordinates of the object an indexing returned
GotCoordinates(r) ==
    IF r.cls = "UniformCoordinates1d" THEN U1dCoordinates(r.val) ELSE r.val

\* the stride of an index that returns a uniform coordinate
Stride(index) ==
    IF index.t = "slice" /\ index.v.step # None THEN index.v.step[1] ELSE 1

\* after c[index] with a valid index: the result has the coordinates
\* c.coordinates[index]; it is uniform for an integer or a slice, with start
\* at the first selected value and step the stride times c's step, and an
\* array for a list of integers or of booleans; name and ctype are those of c
IndexingResult ==
    LET index == scall.index
        sel == Indexed(sc, index)
    IN  /\ GotCoordinates(sret) = sel
        /\ sret.name = scall.props.name /\ sret.ctype = scall.props.ctype
        /\ index.t \in {"int", "slice"}
             => /\ sret.cls = "UniformCoordinates1d"
                /\ sret.val.start = sel[1]
                /\ sret.val.step = Stride(index) * sc.step
        /\ index.t \in {"array", "bool"} => sret.cls = "ArrayCoordinates1d"

\* C14 (as stated): for every valid index i, c[i].coordinates equals
\* c.coordinates[i]; the result is uniform for an integer or a slice, with
\* start and stop at the first and the last selected value and the step
\* multiplied by the stride, and an array for an integer or boolean list;
\* name and properties are carried over.
C14_IndexStopIsLastSelected ==
    (scall.op = "getitem" /\ ValidIndex(scall.index, U1dSize(sc)))
        => /\ IndexingResult
           /\ scall.index.t \in {"int", "slice"}
                => LET sel == Indexed(sc, scall.index) IN sret.val.stop = sel[Len(sel)]

\* C14 (amended): as above, but stop is the coordinate of c at the last
\* position of the slice's range, which is the last selected value when the
\* stride is 1 or -1 and otherwise lies less than one step of the result
\* past it.
C14_IndexingAgrees ==
    (scall.op = "getitem" /\ ValidIndex(scall.index, U1dSize(sc)))
        => /\ IndexingResult
           /\ scall.index.t \in {"int", "slice"}
                => LET sel == Indexed(sc, scall.index)
                       last == sel[Len(sel)]
                   IN  /\ Abs(sret.val.stop - last) < Abs(sret.val.step)
                       /\ (sret.val.stop - last) * sret.val.step >= 0
                       /\ Stride(scall.index) \in {1, 0 - 1} => sret.val.stop = last

\* a slice with stride 2 whose range ends one position after the last
\* selected one, as c[::2] of six points
C14_Witness ==
    /\ scall.op = "getitem"
    /\ scall.index.t = "slice"
    /\ scall.index.v.step = Some(2)
    /\ Len(Indexed(sc, scall.index)) >= 2
    /\ sret.val.stop # Indexed(sc, scall.index)[Len(Indexed(sc, scall.index))]

(***************************************************************************)
(* Claims about Coordinates and StackedCoordinates (SpecG).                *)
(***************************************************************************)
\* the value of c stored under a key
ValueAt(c, key) == c[CHOOSE i \in 1..Len(c) : GName(c[i]) = key]

SameCoordinates(a, b) ==
    /\ GDims(a) = GDims(b)
    /\ \A i \in 1..Len(a) : \A j \in 1..Len(a[i]) :
           /\ a[i][j].name = b[i][j].name
           /\ a[i][j].ctype = b[i][j].ctype
           /\ C1dCoordinates(a[i][j]) = C1dCoordinates(b[i][j])

KeySet(c) == {GName(c[i]) : i \in 1..Len(c)}

\* other brings an unstacked dimension name that c holds under another key
BringsDuplicate(c, other) ==
    \E i \in 1..Len(other) :
        /\ Len(other[i]) = 1
        /\ GName(other[i]) \notin KeySet(c)
        /\ \E j \in 1..Len(c) : other[i][1].name \in SeqSet(GName(c[j]))

\* C18: coords.update(other) overwrites every key of other that coords
\* already has, keeps every existing key at its position and appends the
\* new keys of other at the end in other's order; it raises ValueError when
\* other brings an unstacked dimension name that coords already holds under
\* a different key, and TypeError when other is not a Coordinates.
C18_Update ==
    gcall.op = "update"
        => LET other == gcall.arg.v
               c2 == gret.val
               IsNew(v) == GName(v) \notin KeySet(gc)
           IN  /\ gcall.arg.cls # "Coordinates" => gret.kind = "TypeError"
               /\ (gcall.arg.cls = "Coordinates" /\ BringsDuplicate(gc, other))
                    => gret.kind = "ValueError"
               /\ (gcall.arg.cls = "Coordinates"
                     /\ \A i \in 1..Len(other), j \in 1..Len(gc) :
                            \/ GName(other[i]) = GName(gc[j])
                            \/ SeqSet(GName(other[i])) \cap SeqSet(GName(gc[j])) = {})
                    => gret.kind = "None"
               /\ gret.kind = "None"
                    => /\ \A i \in 1..Len(other) : ValueAt(c2, GName(other[i])) = other[i]
                       /\ SubSeq(GDims(c2), 1, Len(gc)) = GDims(gc)
                       /\ \A i \in 1..Len(gc) :
                              GName(gc[i]) \notin KeySet(other) => c2[i] = gc[i]
                       /\ SubSeq(c2, Len(gc) + 1, Len(c2)) = SelectSeq(other, IsNew)

\* an update that overwrites the first key, keeps the second and appends a
\* new one after it, as the mixed case of test_update
C18_Witness ==
    /\ gcall.op = "update"
    /\ gret.kind = "None"
    /\ GDims(gc) = <<<<"lat", "lon">>, <<"time">>>>
    /\ GDims(gret.val) = <<<<"lat", "lon">>, <<"time">>, <<"alt">>>>
    /\ gret.val[1] # gc[1]
    /\ gret.val[2] = gc[2]

\* C19: coords[key] = value succeeds only when key is an existing top-level
\* key and the dimension name of value is the key, an unnamed value adopting
\* the key; assigning to a key that is not present raises KeyError, and
\* assigning a value whose name differs from the key raises ValueError.
C19_SetItem ==
    gcall.op = "setitem"
        => LET key == gcall.arg.key
               value == gcall.arg.value
               c2 == gret.val
               unnamed == \A j \in 1..Len(value) : value[j].name = ""
           IN  /\ key \notin KeySet(gc) => gret.kind = "KeyError"
               /\ (key \in KeySet(gc) /\ ~unnamed /\ GName(value) # key)
                    => gret.kind = "ValueError"
               /\ gret.kind = "None"
                    <=> (key \in KeySet(gc) /\ (unnamed \/ GName(value) = key))
               /\ gret.kind = "None"
                    => /\ GDims(c2) = GDims(gc)
                       /\ \A i \in 1..Len(gc) : GName(gc[i]) # key => c2[i] = gc[i]
                       /\ LET new == ValueAt(c2, key)
                          IN  \A j \in 1..Len(value) :
                                  /\ C1dCoordinates(new[j]) = C1dCoordinates(value[j])
                                  /\ new[j].ctype = value[j].ctype

\* an unnamed value assigned to the existing key time, which it adopts
C19_Witness ==
    /\ gcall.op = "setitem"
    /\ gcall.arg.key = <<"time">>
    /\ gcall.arg.value[1].name = ""
    /\ gret.kind = "None"
    /\ ValueAt(gret.val, <<"time">>)[1].name = "time"
    /\ ValueAt(gret.val, <<"time">>) # ValueAt(gc, <<"time">>)

(***************************************************************************)
(* Claims about deleting dimensions of a Coordinate (SpecC).               *)
(***************************************************************************)
\* C20: deleting a dimension removes the whole key; deleting a name that is
\* not present, or a single component of a stacked key that still has other
\* components, raises KeyError and removes nothing.  Stated of a
\* drop_dims call with one name on a Coordinate whose names are distinct
\* and whose dims_map and _coords hold the same dimensions.
C20_DelItemWholeKey ==
    [][(ccall.op = "none" /\ ccall'.op = "drop_dims" /\ Len(ccall'.arg) = 1
          /\ ConsistentNames(Self))
         => LET d == ccall'.arg[1]
                Unchanged == _coords' = _coords /\ dims_map' = dims_map
            IN  /\ ~OHas(_coords, d) => (cret'.kind = "KeyError" /\ Unchanged)
                /\ (OHas(_coords, d) /\ Len(OGet(dims_map, d)) > 1)
                     => (cret'.kind = "KeyError" /\ Unchanged)
                /\ (OHas(_coords, d) /\ Len(OGet(dims_map, d)) = 1)
                     => /\ cret'.kind = "ok"
                        /\ _coords' = ODel(_coords, d)
                        /\ dims_map' = ODel(dims_map, d)]_vars

(***************************************************************************)
(* Claims about the in-place operations of a Coordinate (SpecMut).         *)
(***************************************************************************)
\* the operations that change a Coordinate in place
Mutating == {"stack", "unstack", "replace_coords", "drop_dims", "transpose"}

C22_TransposeInPlace ==
    [][(ccall.op = "none" /\ ccall'.op = "transpose" /\ ccall'.arg # <<>>
          /\ ConsistentNames(Self) /\ ~is_stacked(Self)
          /\ SeqSet(ccall'.arg) = SeqSet(OKeys(_coords)))
         => LET ds == ccall'.arg
                c2 == Obj(_coords', dims_map')
            IN  /\ cret'.kind = "ok"
                /\ dims(c2) = [i \in 1..Len(ds) |-> <<ds[i]>>]
                /\ \A i \in 1..Len(ds) :
                       /\ OGet(c2.coords, ds[i]) = OGet(_coords, ds[i])
                       /\ OGet(c2.dims_map, ds[i]) = OGet(dims_map, ds[i])]_vars

(***************************************************************************)
(* Claims about chunking a Coordinate (SpecC).                             *)
(***************************************************************************)
\* the index tuples of a Coordinate of shape sh
IndexTuples(sh) ==
    {t \in [1..Len(sh) -> 0..(CMaxSize + 1)] : \A j \in 1..Len(sh) : t[j] < sh[j]}

\* the tuple a comes before the tuple b in row-major order
RowMajorBefore(a, b) ==
    \E j \in 1..Len(a) : a[j] < b[j] /\ \A h \in 1..(j - 1) : a[h] = b[h]

\* C23: the chunks of c.iterchunks(shape) partition the index space of c:
\* every index tuple of c lies in exactly one chunk, no chunk is longer than
\* shape[j] along dimension j, and the chunks come in row-major order.
\* Stated of an unstacked Coordinate whose dims_map and _coords hold the
\* same dimensions.
C23_ChunksPartition ==
    (ccall.op = "iterchunks" /\ ConsistentNames(Self))
        => LET sh == shape(Self)
               shp == ccall.arg
               r == cret.val
               In(t, p) == \A j \in 1..Len(sh) :
                               t[j] \in SliceIndices(r[p].slices[j], sh[j])
           IN  /\ cret.kind = "chunks"
               /\ \A t \in IndexTuples(sh) :
                      Cardinality({p \in 1..Len(r) : In(t, p)}) = 1
               /\ \A p \in 1..Len(r), j \in 1..Len(sh) :
                      /\ Cardinality(SliceIndices(r[p].slices[j], sh[j])) <= shp[j]
                      /\ Len(r[p].coords[j].v) <= shp[j]
               /\ \A p, q \in 1..Len(r) :
                      p < q => RowMajorBefore([j \in 1..Len(sh) |-> r[p].slices[j].start],
                                              [j \in 1..Len(sh) |-> r[q].slices[j].start])

(***************************************************************************)
(* Further claims about the 1-D uniform coordinate (Spec).                 *)
(***************************************************************************)
\* C24: c.select(c.bounds) returns a coordinate equal to c: every value of
\* c, in c's order.  Stated of intersect_bounds called with c's own bounds
\* and without ind, for start # stop.
C24_SelectOwnBounds ==
    (ucall.op = "intersect_bounds" /\ ~ucall.ind /\ WellFormed(ucrd)
       /\ ucrd.start # ucrd.stop /\ ucall.b = bounds(ucrd))
        => /\ uret.kind = "crd"
           /\ coordinates(uret.crd) = coordinates(ucrd)

\* what the cached properties compute from the defining fields of c
Computed(c, name) ==
    CASE name = "bounds" -> bounds(c)
      [] name = "delta" -> delta(c)
      [] OTHER -> coordinates(c)

C26_StackFillsCtype ==
    [][(tcall.op = "none" /\ tcall'.op = "StackedCoordinates"
            /\ tret'.kind = "ok" /\ tcall'.arg # None) =>
          /\ stacked' = tcall'.refs
          /\ \A k \in DOMAIN objs :
                /\ objs'[k].name = objs[k].name
                /\ objs'[k].v = objs[k].v
                /\ objs'[k].ctype =
                      IF k \in SeqSet(tcall'.refs) /\ ~objs[k].explicit
                      THEN tcall'.arg[1]
                      ELSE objs[k].ctype]_vars

\* lat without a ctype and time with ctype 'right' were stacked with
\* ctype='point'
C26_Witness ==
    /\ tcall.op = "StackedCoordinates"
    /\ tcall.arg = Some("point")
    /\ tret.kind = "ok"
    /\ stacked = <<1, 3>>
    /\ objs[1].ctype = "point"
    /\ objs[3].ctype = "right"
    /\ objs[2].ctype = "midpoint"

\* C27: the name of a StackedCoordinates is its components' names joined by
\* '_', '?' standing for a component without a name; assigning a name with
\* one part per component and no repeated part renames component i, the
\* caller's object, to the i-th part; assigning a name with another number
\* of parts, or with a repeated part, raises ValueError.
C27_StackedName ==
    [][/\ (tcall.op = "none" /\ tcall'.op = "name") =>
             /\ Len(tret'.val) = Len(stacked)
             /\ \A i \in 1..Len(stacked) :
                   tret'.val[i] = IF objs[stacked[i]].name = ""
                                  THEN "?"
                                  ELSE objs[stacked[i]].name
       /\ (tcall.op = "none" /\ tcall'.op = "set_name") =>
             LET value == tcall'.arg
             IN  IF \/ Len(value) # Len(stacked)
                    \/ \E i, j \in 1..Len(value) : i # j /\ value[i] = value[j]
                 THEN tret'.kind = "ValueError"
                 ELSE /\ tret'.kind = "ok"
                      /\ \A i \in 1..Len(stacked) : objs'[stacked[i]].name = value[i]]_vars

\* c.name = 'lon_lat_time' renamed the caller's lat to lon and lon to lat
C27_Witness ==
    /\ tcall.op = "set_name"
    /\ tcall.arg = <<"lon", "lat", "time">>
    /\ tret.kind = "ok"
    /\ stacked = <<1, 2, 3>>
    /\ objs[1].name = "lon"
    /\ objs[2].name = "lat"
    /\ objs[3].name = "time"

(***************************************************************************)
(* Claims about the arguments and operands of a call.                      *)
(***************************************************************************)
\* C28: c.intersect(other, ...) and c.intersect_bounds(bounds, ...) change
\* nothing but their return value: after the call the caller's bounds
\* argument, and the bounds of other that intersect hands on, hold the
\* values they held before it, and c has the start, stop, num and step it
\* had, for ascending and descending coordinates and for ind False and True.
C28_IntersectLeavesArguments ==
    [][(ucall.op = "none" /\ ucall'.op \in {"intersect", "intersect_bounds"}) =>
          /\ ucrd' = ucrd
          /\ ubnd' = ucall'.b]_vars

\* C29: in every reachable state of a Coordinate the keys of dims_map are
\* the keys of _coords: every dimension of the coordinate store has its
\* stacking entry and there is no entry for a dimension that is gone. This
\* holds after construction, drop_dims (of a whole key or of one component
\* of a stacked key), in-place stack and unstack, in-place transpose and
\* in-place replace_coords.
C29_DimsMapKeys ==
    SeqSet(OKeys(dims_map)) = SeqSet(OKeys(_coords))

\* C30: a + b and a.add_unique(b) return a new Coordinate and leave a
\* unchanged: a's coordinate store and a's stacking map are after the call
\* what they were before it, also when b has dimensions that a does not
\* have (b is not written by the call).
C30_AddLeavesOperands ==
    [][(ccall.op = "none" /\ ccall'.op = "_add") =>
          /\ _coords' = _coords
          /\ dims_map' = dims_map]_vars
====
